---- MODULE Spec2Model ----
(***************************************************************************)
(* Model of the Neverland marketplace monitor (src/backend/monitor.py) and *)
(* of the caches of the dashboard backend (src/backend/app.py).            *)
(*                                                                         *)
(* Conventions.                                                            *)
(*  - A Python Optional is a sequence of length <= 1: <<>> is None.        *)
(*  - Amounts of MON are integers counting ticks of 1e-13 MON, a tenth of  *)
(*    the tolerance of detect_undercuts; arithmetic on them is exact       *)
(*    (binary floating point rounding is not modelled).  A raw price value *)
(*    is given in units of 10^5 wei, so that at 18 decimals one unit is    *)
(*    one tick.                                                            *)
(*  - token_id and order_hash are strings of digits, written as the number *)
(*    they spell (0 stands for the empty string); where the code compares  *)
(*    token ids, the model compares their digit sequences (TokenStr).      *)
(*  - An event_id is the sequence of the fields its f-string joins, led by *)
(*    a code for the literal prefix; the codes are ordered as the prefixes *)
(*    are as strings, so the lexicographic order of the sequences is the   *)
(*    string order of the ids.                                             *)
(*  - Payload fields that no decision and no event_id reads (contract,     *)
(*    currency, asset_url, undercut_pct) are left out of the records.      *)
(***************************************************************************)
EXTENDS Integers, Sequences, FiniteSets, TLC

VARIABLES
    \* ---- monitor.py: main() ----
    pc,             \* position of main(): "load", "fetch", "emit", "sleep", "stopped"; "diff"/"diffed" in SpecDiff
    args,           \* parsed command line: wallets, top_n, min_undercut_mon, once
    state_file,     \* content of --state-file on disk (Optional PersistedState)
    state,          \* the dict `state` of main(): last_snapshot, seen_events
    last_snapshot,  \* local last_snapshot of main() (Optional snapshot)
    seen_events,    \* the dict the local name seen_events of main() refers to
    aliased,        \* TRUE while seen_events and state["seen_events"] are the same object
    listings,       \* local listings of the current cycle
    events,         \* events of the current cycle not yet handled by the emit loop
    cycle_events,   \* the full event list built by the current cycle
    emitted,        \* event ids logged and handed to delivery by this process, in order
    delivery,       \* outcome of the latest delivery: "none", "ok" or "failed"
    clock,          \* wall clock, in poll intervals
    fetched_rows,   \* the raw records handed to normalize_rows (in app.py: the
                    \* raw_rows of build_discount_rankings), kept for the claims
                    \* on normalisation and deduplication
    \* ---- app.py: NeverlandDataService ----
    now,            \* time.time(), in seconds
    price_cache,    \* self.price_cache: Optional (timestamp, prices)
    call,           \* per caller: its position in get_prices and its locals
    last_return,    \* what the latest finished get_prices call returned or raised
    upstream,       \* number of upstream quote fetches attempted so far
    calls,          \* number of get_prices calls started so far
    payload,        \* what build_discount_rankings returned, Optional
    metadata_cache, \* self.metadata_cache: dict token_id -> (timestamp, dust_locked)
    many,           \* per request thread: its get_dust_locked_many call
    lookup          \* per request thread and token: the get_dust_locked call
                    \* submitted to the executor

monitorVars == <<pc, args, state_file, state, last_snapshot, seen_events, aliased,
                 listings, events, cycle_events, emitted, delivery, clock,
                 fetched_rows>>

priceVars == <<now, price_cache, call, last_return, upstream, calls, payload>>

dustVars == <<metadata_cache, many, lookup>>

vars == <<monitorVars, priceVars, dustVars>>

-----------------------------------------------------------------------------
(* Generic helpers *)

Min2(a, b) == IF a < b THEN a ELSE b

Max2(a, b) == IF a > b THEN a ELSE b

Range(s) == {s[i] : i \in 1..Len(s)}

\* s[:n] of Python, n >= 0
Prefix(s, n) == SubSeq(s, 1, Min2(n, Len(s)))

RECURSIVE Pow10(_)
Pow10(n) == IF n <= 0 THEN 1 ELSE 10 * Pow10(n - 1)

\* Lexicographic order of two sequences of integers (Python's str <)
RECURSIVE SeqLess(_, _)
SeqLess(a, b) ==
    IF b = <<>> THEN FALSE
    ELSE IF a = <<>> THEN TRUE
    ELSE IF Head(a) # Head(b) THEN Head(a) < Head(b)
    ELSE SeqLess(Tail(a), Tail(b))

\* sorted(keys) of a set of integer sequences
RECURSIVE SortedKeys(_)
SortedKeys(S) ==
    IF S = {} THEN <<>>
    ELSE LET m == CHOOSE x \in S : \A y \in S \ {x} : SeqLess(x, y)
         IN  <<m>> \o SortedKeys(S \ {m})

-----------------------------------------------------------------------------
(* monitor.py: parsing and normalisation *)

\* str.upper() on the status values of the model
Upper(s) ==
    CASE s = "active"    -> "ACTIVE"
      [] s = "cancelled" -> "CANCELLED"
      [] OTHER           -> s

\* str.lower() on the addresses of the model
Lower(s) ==
    CASE s = "W1" -> "w1"
      [] s = "W2" -> "w2"
      [] s = "X1" -> "x1"
      [] OTHER    -> s

DEFAULT_DECIMALS == 18

\* to_native_price: (wei, wei / 10**dec), in units of 10^5 wei and ticks;
\* value_wei is <<v>> when int(str(value)) yields v and <<>> when it raises
\* TypeError or ValueError, which the function catches
to_native_price(value_wei, decimals) ==
    LET wei == IF value_wei = <<>> THEN 0 ELSE value_wei[1]
        dec == IF decimals < 0 THEN DEFAULT_DECIMALS ELSE decimals
    IN  <<wei, wei * Pow10(DEFAULT_DECIMALS - dec)>>

\* the shape of a raw record: "none" when every field has the documented
\* type, else which field has another type
Shape(raw) == IF "malformed" \in DOMAIN raw THEN raw.malformed ELSE "none"

\* parse_listing raises AttributeError: .get() on a protocol_data (line 221)
\* or a price (line 233) that is a non-empty value other than a mapping
parse_listing_raises(raw) ==
    LET status == Upper(raw.status)
    IN  /\ ~(status # "" /\ status # "ACTIVE")
        /\ raw.remaining_quantity > 0
        /\ \/ Shape(raw) = "protocol_data_not_mapping"
           \/ /\ Shape(raw) = "price_not_mapping"
              /\ raw.token_id # 0

\* parse_listing: Optional parsed row, when it does not raise
parse_listing(raw) ==
    LET status == Upper(raw.status)
    IN  IF status # "" /\ status # "ACTIVE" THEN <<>>
        ELSE IF raw.remaining_quantity <= 0 THEN <<>>
        ELSE IF Shape(raw) = "offer_not_list" THEN <<>>
        ELSE IF raw.token_id = 0 THEN <<>>
        ELSE LET value == IF Shape(raw) = "value_not_numeric"
                          THEN <<>> ELSE <<raw.value>>
                 price == to_native_price(value, raw.decimals)
             IN  << [token_id     |-> raw.token_id,
                     order_hash   |-> raw.order_hash,
                     seller       |-> Lower(raw.offerer),
                     price_native |-> price[2],
                     price_wei    |-> price[1]] >>

\* the dedup loop of normalize_rows: dedup is the dict token_id -> parsed row
RECURSIVE DedupRows(_, _)
DedupRows(rows, dedup) ==
    IF rows = <<>> THEN dedup
    ELSE LET parsed == parse_listing(Head(rows))
         IN  IF parsed = <<>> THEN DedupRows(Tail(rows), dedup)
             ELSE LET p == parsed[1]
                      t == p.token_id
                  IN  IF t \notin DOMAIN dedup
                      THEN DedupRows(Tail(rows), dedup @@ (t :> p))
                      ELSE IF p.price_native < dedup[t].price_native
                      THEN DedupRows(Tail(rows), [dedup EXCEPT ![t] = p])
                      ELSE IF p.price_native = dedup[t].price_native
                              /\ p.order_hash < dedup[t].order_hash
                      THEN DedupRows(Tail(rows), [dedup EXCEPT ![t] = p])
                      ELSE DedupRows(Tail(rows), dedup)

\* str(token_id): the decimal digits of a token id, most significant first
RECURSIVE TokenStr(_)
TokenStr(n) == IF n < 10 THEN <<n>> ELSE Append(TokenStr(n \div 10), n % 10)

\* Mutant: the sort key is (token_id, price_native)
RowKeyLess_TokenFirst(a, b) ==
    \/ SeqLess(TokenStr(a.token_id), TokenStr(b.token_id))
    \/ a.token_id = b.token_id /\ a.price_native < b.price_native

\* the sort key (price_native, token_id) of normalize_rows; token ids are
\* strings and compare as strings
RowKeyLess(a, b) ==
    \/ a.price_native < b.price_native
    \/ a.price_native = b.price_native
           /\ SeqLess(TokenStr(a.token_id), TokenStr(b.token_id))

\* sorted(dedup.values(), key=...)
RECURSIVE SortedRows(_)
SortedRows(S) ==
    IF S = {} THEN <<>>
    ELSE LET m == CHOOSE x \in S : \A y \in S \ {x} : ~RowKeyLess(y, x)
         IN  <<m>> \o SortedRows(S \ {m})

\* the rows normalize_rows parses out of its input
ParsedRows(raw_listings) ==
    {parse_listing(raw_listings[i])[1] :
        i \in {j \in 1..Len(raw_listings) : parse_listing(raw_listings[j]) # <<>>}}

\* Mutant: every parsed record is ranked, duplicates of a token included
normalize_rows_NoDedup(raw_listings) ==
    LET ordered == SortedRows(ParsedRows(raw_listings))
    IN  [idx \in 1..Len(ordered) |->
            [rank         |-> idx,
             token_id     |-> ordered[idx].token_id,
             order_hash   |-> ordered[idx].order_hash,
             seller       |-> ordered[idx].seller,
             price_native |-> ordered[idx].price_native,
             price_wei    |-> ordered[idx].price_wei]]

\* Mutant: enumerate(ordered) without start=1
normalize_rows_ZeroBased(raw_listings) ==
    LET dedup   == DedupRows(raw_listings, <<>>)
        ordered == SortedRows({dedup[t] : t \in DOMAIN dedup})
    IN  [idx \in 1..Len(ordered) |->
            [rank         |-> idx - 1,
             token_id     |-> ordered[idx].token_id,
             order_hash   |-> ordered[idx].order_hash,
             seller       |-> ordered[idx].seller,
             price_native |-> ordered[idx].price_native,
             price_wei    |-> ordered[idx].price_wei]]

\* normalize_rows: the ranked list of NormalizedListing
normalize_rows(raw_listings) ==
    LET dedup   == DedupRows(raw_listings, <<>>)
        ordered == SortedRows({dedup[t] : t \in DOMAIN dedup})
    IN  [idx \in 1..Len(ordered) |->
            [rank         |-> idx,
             token_id     |-> ordered[idx].token_id,
             order_hash   |-> ordered[idx].order_hash,
             seller       |-> ordered[idx].seller,
             price_native |-> ordered[idx].price_native,
             price_wei    |-> ordered[idx].price_wei]]

\* normalize_rows raises when parse_listing raises on a record: the loop has
\* no try/except (lines 251-253)
normalize_rows_raises(raw_listings) ==
    \E i \in 1..Len(raw_listings) : parse_listing_raises(raw_listings[i])

\* make_snapshot
make_snapshot(ls, captured_at) == [captured_at |-> captured_at, listings |-> ls]

\* listings_from_snapshot, on snapshots that make_snapshot wrote
listings_from_snapshot(snapshot) ==
    IF snapshot = <<>> THEN <<>>
    ELSE LET rows == snapshot[1].listings
         IN  [i \in 1..Len(rows) |-> [rows[i] EXCEPT !.seller = Lower(@)]]

-----------------------------------------------------------------------------
(* monitor.py: event ids *)

\* Codes of the literal prefixes of the event ids, in their string order:
\* "rank_top_" < "undercut:" < "wallet_missing:" < "wallet_new:" < "wallet_rank:"
IdRankTop == 1

IdUndercut == 2

IdWalletMissing == 3

IdWalletNew == 4

IdWalletRank == 5

\* Character codes of "=" (of "=>") and "|" in the rank_top id; a token digit
\* sorts below both
ChrArrow == 61

ChrBar == 124

\* '|'.join(tokens), one element per token with the bars between them
RECURSIVE JoinBar(_)
JoinBar(tokens) ==
    IF tokens = <<>> THEN <<>>
    ELSE IF Len(tokens) = 1 THEN tokens
    ELSE <<Head(tokens), ChrBar>> \o JoinBar(Tail(tokens))

\* 10^5 ticks are 1e-8 MON, the last digit "{value:.8f}" prints
FORMAT_QUANTUM == 100000

\* format_mon: the value rounded to 8 decimals (round-half-even, as Python's
\* float formatting does on an exactly representable tie), as a count of 1e-8 MON
format_mon(value) ==
    LET q == value \div FORMAT_QUANTUM
        r == value % FORMAT_QUANTUM
    IN  IF 2 * r > FORMAT_QUANTUM THEN q + 1
        ELSE IF 2 * r < FORMAT_QUANTUM THEN q
        ELSE IF q % 2 = 0 THEN q ELSE q + 1

-----------------------------------------------------------------------------
(* monitor.py: the diff step *)

TokenIds(rows) == [i \in 1..Len(rows) |-> rows[i].token_id]

MAX_MOVED == 12

TOP_PREVIEW == 10

\* Mutant: the loop without its break at 12 entries
RECURSIVE MovedPositions_NoCap(_, _, _, _, _)
MovedPositions_NoCap(prev_top, curr_top, idx, max_len, moved) ==
    IF idx > max_len THEN moved
    ELSE LET prev_token == IF idx <= Len(prev_top) THEN prev_top[idx] ELSE 0
             curr_token == IF idx <= Len(curr_top) THEN curr_top[idx] ELSE 0
             moved2 == IF prev_token # curr_token
                       THEN Append(moved, [position     |-> idx,
                                           before_token |-> prev_token,
                                           after_token  |-> curr_token])
                       ELSE moved
         IN  MovedPositions_NoCap(prev_top, curr_top, idx + 1, max_len, moved2)

\* the loop over range(max_len) of detect_top_rank_change; a missing token is 0
RECURSIVE MovedPositions(_, _, _, _, _)
MovedPositions(prev_top, curr_top, idx, max_len, moved) ==
    IF idx > max_len THEN moved
    ELSE LET prev_token == IF idx <= Len(prev_top) THEN prev_top[idx] ELSE 0
             curr_token == IF idx <= Len(curr_top) THEN curr_top[idx] ELSE 0
             moved2 == IF prev_token # curr_token
                       THEN Append(moved, [position     |-> idx,
                                           before_token |-> prev_token,
                                           after_token  |-> curr_token])
                       ELSE moved
         IN  IF Len(moved2) >= MAX_MOVED THEN moved2
             ELSE MovedPositions(prev_top, curr_top, idx + 1, max_len, moved2)

\* detect_top_rank_change from line 324 on, given the two top lists
TopRankChange(prev_top, curr_top, top_n) ==
    LET max_len  == Min2(top_n, Max2(Len(prev_top), Len(curr_top)))
    IN  IF prev_top = curr_top THEN <<>>
        ELSE << [event_type      |-> "rank_change",
                 event_id        |-> <<IdRankTop, top_n>> \o JoinBar(prev_top)
                                        \o <<ChrArrow>> \o JoinBar(curr_top),
                 top_n           |-> top_n,
                 moved_positions |-> MovedPositions(prev_top, curr_top, 1, max_len, <<>>),
                 before_top      |-> Prefix(prev_top, TOP_PREVIEW),
                 after_top       |-> Prefix(curr_top, TOP_PREVIEW)] >>

\* Mutant: the current list sliced one short, current[:top_n - 1]
detect_top_rank_change_ShortSlice(previous, current, top_n) ==
    TopRankChange(TokenIds(Prefix(previous, top_n)),
                  TokenIds(Prefix(current, top_n - 1)), top_n)

\* detect_top_rank_change: Optional event
detect_top_rank_change(previous, current, top_n) ==
    TopRankChange(TokenIds(Prefix(previous, top_n)),
                  TokenIds(Prefix(current, top_n)), top_n)

\* {row.token_id: row for row in rows if row.seller in wallets}: the keys in
\* the order of their first insertion, each with the last row inserted for it
TrackedRows(rows, wallets) == SelectSeq(rows, LAMBDA row : row.seller \in wallets)

MapItems(tracked) ==
    LET firsts == SelectSeq([i \in 1..Len(tracked) |-> i],
                            LAMBDA i : \A j \in 1..(i - 1) : tracked[j].token_id # tracked[i].token_id)
        LastOf(t) == tracked[CHOOSE j \in 1..Len(tracked) :
                                /\ tracked[j].token_id = t
                                /\ \A k \in (j + 1)..Len(tracked) : tracked[k].token_id # t]
    IN  [n \in 1..Len(firsts) |-> LastOf(tracked[firsts[n]].token_id)]

\* prev_map.get(token_id): Optional row
MapGet(items, token_id) == SelectSeq(items, LAMBDA row : row.token_id = token_id)

\* the loop over curr_map.items() of detect_wallet_rank_changes
RECURSIVE WalletCurrLoop(_, _)
WalletCurrLoop(curr_items, prev_items) ==
    IF curr_items = <<>> THEN <<>>
    ELSE LET row  == Head(curr_items)
             prev == MapGet(prev_items, row.token_id)
             out  == IF prev = <<>>
                     THEN << [event_type |-> "wallet_listing_new",
                              event_id   |-> <<IdWalletNew, row.token_id, row.order_hash>>,
                              token_id   |-> row.token_id,
                              new_rank   |-> row.rank,
                              new_price  |-> row.price_native,
                              seller     |-> row.seller] >>
                     ELSE IF prev[1].rank # row.rank
                     THEN << [event_type |-> "wallet_rank_changed",
                              event_id   |-> <<IdWalletRank, row.token_id, prev[1].rank,
                                               row.rank, row.order_hash>>,
                              token_id   |-> row.token_id,
                              old_rank   |-> prev[1].rank,
                              new_rank   |-> row.rank,
                              old_price  |-> prev[1].price_native,
                              new_price  |-> row.price_native,
                              seller     |-> row.seller] >>
                     ELSE <<>>
         IN  out \o WalletCurrLoop(Tail(curr_items), prev_items)

\* the loop over prev_map.items() of detect_wallet_rank_changes
RECURSIVE WalletPrevLoop(_, _)
WalletPrevLoop(prev_items, curr_items) ==
    IF prev_items = <<>> THEN <<>>
    ELSE LET row == Head(prev_items)
             out == IF MapGet(curr_items, row.token_id) = <<>>
                    THEN << [event_type |-> "wallet_listing_missing",
                             event_id   |-> <<IdWalletMissing, row.token_id, row.order_hash>>,
                             token_id   |-> row.token_id,
                             old_rank   |-> row.rank,
                             old_price  |-> row.price_native,
                             seller     |-> row.seller] >>
                    ELSE <<>>
         IN  out \o WalletPrevLoop(Tail(prev_items), curr_items)

\* Mutant: the loop over prev_map is missing
detect_wallet_rank_changes_NoMissing(previous, current, wallets) ==
    IF wallets = {} THEN <<>>
    ELSE LET prev_items == MapItems(TrackedRows(previous, wallets))
             curr_items == MapItems(TrackedRows(current, wallets))
         IN  WalletCurrLoop(curr_items, prev_items)

\* detect_wallet_rank_changes
detect_wallet_rank_changes(previous, current, wallets) ==
    IF wallets = {} THEN <<>>
    ELSE LET prev_items == MapItems(TrackedRows(previous, wallets))
             curr_items == MapItems(TrackedRows(current, wallets))
         IN  WalletCurrLoop(curr_items, prev_items) \o WalletPrevLoop(prev_items, curr_items)

\* 1e-12 MON, the tolerance added to undercut_by, is ten ticks
UNDERCUT_EPS == 10

\* the undercut event of detect_undercuts, lines 433-457
UndercutEvent(row, above, undercut_by) ==
    [event_type            |-> "undercut",
     event_id              |-> <<IdUndercut, row.token_id, row.order_hash,
                                 above.order_hash,
                                 format_mon(above.price_native),
                                 format_mon(row.price_native)>>,
     token_id              |-> row.token_id,
     seller                |-> row.seller,
     self_rank             |-> row.rank,
     self_price            |-> row.price_native,
     self_order_hash       |-> row.order_hash,
     competitor_rank       |-> above.rank,
     competitor_token_id   |-> above.token_id,
     competitor_seller     |-> above.seller,
     competitor_price      |-> above.price_native,
     competitor_order_hash |-> above.order_hash,
     undercut_by           |-> undercut_by]

\* Mutant: the check of the seller of the listing above is missing
UndercutOf_AnyAbove(row, current, wallets, min_undercut_mon) ==
    IF row.seller \notin wallets THEN <<>>
    ELSE IF row.rank <= 1 THEN <<>>
    ELSE LET above == current[row.rank - 1]
             undercut_by == row.price_native - above.price_native
         IN  IF above.price_native >= row.price_native THEN <<>>
             ELSE IF undercut_by + UNDERCUT_EPS < min_undercut_mon THEN <<>>
             ELSE <<UndercutEvent(row, above, undercut_by)>>

\* Mutant: the threshold compared without the tolerance
UndercutOf_NoTolerance(row, current, wallets, min_undercut_mon) ==
    IF row.seller \notin wallets THEN <<>>
    ELSE IF row.rank <= 1 THEN <<>>
    ELSE LET above == current[row.rank - 1]
             undercut_by == row.price_native - above.price_native
         IN  IF above.seller \in wallets THEN <<>>
             ELSE IF above.price_native >= row.price_native THEN <<>>
             ELSE IF undercut_by < min_undercut_mon THEN <<>>
             ELSE <<UndercutEvent(row, above, undercut_by)>>

\* the body of the loop of detect_undercuts for one row: Optional event
UndercutOf(row, current, wallets, min_undercut_mon) ==
    IF row.seller \notin wallets THEN <<>>
    ELSE IF row.rank <= 1 THEN <<>>
    ELSE LET above == current[row.rank - 1]      \* current[row.rank - 2], 0-based
             undercut_by == row.price_native - above.price_native
         IN  IF above.seller \in wallets THEN <<>>
             ELSE IF above.price_native >= row.price_native THEN <<>>
             ELSE IF undercut_by + UNDERCUT_EPS < min_undercut_mon THEN <<>>
             ELSE <<UndercutEvent(row, above, undercut_by)>>

RECURSIVE UndercutLoop(_, _, _, _)
UndercutLoop(rows, current, wallets, min_undercut_mon) ==
    IF rows = <<>> THEN <<>>
    ELSE UndercutOf(Head(rows), current, wallets, min_undercut_mon)
             \o UndercutLoop(Tail(rows), current, wallets, min_undercut_mon)

\* detect_undercuts
detect_undercuts(current, wallets, min_undercut_mon) ==
    IF wallets = {} THEN <<>>
    ELSE UndercutLoop(current, current, wallets, min_undercut_mon)

\* Mutant: the undercut events are put first
BuildEvents_UndercutsFirst(previous, current, a) ==
    IF previous # <<>>
    THEN detect_undercuts(current, a.wallets, a.min_undercut_mon)
             \o detect_top_rank_change(previous, current, a.top_n)
             \o detect_wallet_rank_changes(previous, current, a.wallets)
    ELSE <<>>

\* Mutant: the detectors run without a baseline too
BuildEvents_NoBaselineCheck(previous, current, a) ==
    detect_top_rank_change(previous, current, a.top_n)
        \o detect_wallet_rank_changes(previous, current, a.wallets)
        \o detect_undercuts(current, a.wallets, a.min_undercut_mon)

\* main(), lines 580-589: the event list of one cycle
BuildEvents(previous, current, a) ==
    IF previous # <<>>
    THEN detect_top_rank_change(previous, current, a.top_n)
             \o detect_wallet_rank_changes(previous, current, a.wallets)
             \o detect_undercuts(current, a.wallets, a.min_undercut_mon)
    ELSE <<>>

\* Mutant: every event passes
should_emit_Always(event_id, seen) == TRUE

\* Mutant: `in` for `not in`
should_emit_Inverted(event_id, seen) == event_id \in DOMAIN seen

\* should_emit
should_emit(event_id, seen) == event_id \notin DOMAIN seen

\* main(), line 596: seen_events[event_id] = now_utc_iso()
RecordSeen(seen, event_id, t) ==
    [k \in DOMAIN seen \cup {event_id} |-> IF k = event_id THEN t ELSE seen[k]]

-----------------------------------------------------------------------------
(* monitor.py: the state file *)

\* Stands for the 5000 keys save_state keeps (lines 133-134)
MaxSeenKept == 2

EmptyState == [last_snapshot |-> <<>>, seen_events |-> <<>>]

\* A state file is <<>> (missing), <<st>> with st a state that save_state
\* wrote, or <<[corrupt |-> k]>> with k one of:
\*   "invalid_json"    text that json.loads rejects (JSONDecodeError)
\*   "unreadable"      read_text raises OSError (a directory, no permission)
\*   "not_utf8"        bytes that read_text cannot decode (UnicodeDecodeError)
\*   "json_array"      valid JSON that is not an object ([], "x", null)
\*   "bad_seen_events" a JSON object whose seen_events is not a mapping
CorruptKinds ==
    {"invalid_json", "unreadable", "not_utf8", "json_array", "bad_seen_events"}

IsCorrupt(file) == file # <<>> /\ "corrupt" \in DOMAIN file[1]

\* load_state: what the call returns ("dict": a JSON object, "not_dict":
\* another JSON value) or that it raised; value is the object's content as
\* far as main reads it
load_state(file) ==
    IF file = <<>> THEN [kind |-> "dict", value |-> EmptyState, seen_is_dict |-> TRUE]
    ELSE IF ~IsCorrupt(file)
    THEN [kind |-> "dict", value |-> file[1], seen_is_dict |-> TRUE]
    ELSE IF file[1].corrupt \in {"invalid_json", "unreadable"}
    THEN [kind |-> "dict", value |-> EmptyState, seen_is_dict |-> TRUE]
    ELSE IF file[1].corrupt = "not_utf8"
    THEN [kind |-> "raised", value |-> EmptyState, seen_is_dict |-> FALSE]
    ELSE IF file[1].corrupt = "json_array"
    THEN [kind |-> "not_dict", value |-> EmptyState, seen_is_dict |-> FALSE]
    ELSE [kind |-> "dict", value |-> EmptyState, seen_is_dict |-> FALSE]

\* Mutant: sorted(seen_events.keys())[:5000], the smallest keys are kept
TrimmedKeys_Smallest(seen) ==
    LET keys == SortedKeys(DOMAIN seen)
    IN  Range(SubSeq(keys, 1, MaxSeenKept))

\* sorted(seen_events.keys())[-5000:]
TrimmedKeys(seen) ==
    LET keys == SortedKeys(DOMAIN seen)
    IN  Range(SubSeq(keys, Len(keys) - MaxSeenKept + 1, Len(keys)))

\* save_state: the dict `state` as it leaves the call; the file holds the same
save_state(st) ==
    IF Cardinality(DOMAIN st.seen_events) > MaxSeenKept
    THEN [st EXCEPT !.seen_events = [k \in TrimmedKeys(st.seen_events) |-> st.seen_events[k]]]
    ELSE st

-----------------------------------------------------------------------------
(* app.py: the metadata cache of NeverlandDataService and the lookups of   *)
(* the locked DUST of a token.  Amounts of DUST are whole numbers.          *)

METADATA_CACHE_TTL == 1800

\* the request threads of the ThreadingHTTPServer
DustCallers == {"r1", "r2"}

\* the token ids a request asks about
LookupTokens == {1, 2}

\* a request thread outside get_dust_locked_many
IdleMany == [pc |-> "idle", token_ids |-> <<>>, out |-> <<>>, calls |-> 0]

\* no get_dust_locked call for the token, and one submitted to the executor
\* (started is the local `now` of the call, result what it returned)
NoLookup == [pc |-> "none", started |-> 0, result |-> <<>>]

SubmittedLookup == [pc |-> "submitted", started |-> 0, result |-> <<>>]

InitDustVars ==
    /\ metadata_cache = <<>>
    /\ many = [c \in DustCallers |-> IdleMany]
    /\ lookup = [c \in DustCallers |-> [t \in LookupTokens |-> NoLookup]]

\* _extract_dust_locked on a payload whose locked-DUST attribute is <<v>>, or
\* <<>> when the attribute is missing or its value does not parse
extract_dust_locked(attribute) ==
    IF attribute = <<>> THEN 0 ELSE Max2(attribute[1], 0)

\* get_dust_locked, line 171: the token has an entry younger than the TTL
EntryFresh(cache, token_id, at) ==
    token_id \in DOMAIN cache /\ at - cache[token_id].ts < METADATA_CACHE_TTL

\* get_dust_locked_many, lines 181-186: an empty list returns {} at once,
\* else one get_dust_locked call per token is submitted to the executor
StartMany(c, token_ids) ==
    /\ many[c].pc # "waiting"
    /\ many' = [many EXCEPT ![c] =
                   [pc        |-> IF token_ids = <<>> THEN "returned" ELSE "waiting",
                    token_ids |-> token_ids,
                    out       |-> <<>>,
                    calls     |-> many[c].calls + 1]]
    /\ lookup' = [lookup EXCEPT ![c] =
                     [t \in LookupTokens |->
                         IF t \in Range(token_ids) THEN SubmittedLookup ELSE NoLookup]]
    /\ UNCHANGED <<metadata_cache, now, upstream>>

\* get_dust_locked, lines 168-172: the call reads the clock and the cache
\* under the lock and returns a fresh entry's value
BeginLookup(c, token_id) ==
    /\ lookup[c][token_id].pc = "submitted"
    /\ lookup' = [lookup EXCEPT ![c][token_id] =
                     IF EntryFresh(metadata_cache, token_id, now)
                     THEN [pc      |-> "returned",
                           started |-> now,
                           result  |-> <<metadata_cache[token_id].dust_locked>>]
                     ELSE [pc |-> "fetching", started |-> now, result |-> <<>>]]
    /\ UNCHANGED <<metadata_cache, many, now, upstream>>

\* Mutant: a failed fetch is remembered as a zero amount
FetchMetadata_CachesFailure(c, token_id, outcome) ==
    /\ lookup[c][token_id].pc = "fetching"
    /\ upstream' = upstream + 1
    /\ LET dust_locked == IF outcome.raised THEN 0
                          ELSE extract_dust_locked(outcome.attribute)
       IN  /\ metadata_cache' =
                  [t \in DOMAIN metadata_cache \cup {token_id} |->
                      IF t = token_id
                      THEN [ts |-> lookup[c][token_id].started,
                            dust_locked |-> dust_locked]
                      ELSE metadata_cache[t]]
           /\ lookup' = [lookup EXCEPT ![c][token_id] =
                            IF outcome.raised
                            THEN [@ EXCEPT !.pc = "raised"]
                            ELSE [@ EXCEPT !.pc = "returned",
                                           !.result = <<dust_locked>>]]
    /\ UNCHANGED <<many, now>>

\* get_dust_locked, lines 174-178: _fetch_json raises (after its retries) and
\* the exception leaves the call, or it returns a payload whose amount is
\* stored with the time read at the start of the call
FetchMetadata(c, token_id, outcome) ==
    /\ lookup[c][token_id].pc = "fetching"
    /\ upstream' = upstream + 1
    /\ IF outcome.raised
       THEN /\ lookup' = [lookup EXCEPT ![c][token_id].pc = "raised"]
            /\ UNCHANGED metadata_cache
       ELSE LET dust_locked == extract_dust_locked(outcome.attribute)
            IN  /\ metadata_cache' =
                       [t \in DOMAIN metadata_cache \cup {token_id} |->
                           IF t = token_id
                           THEN [ts |-> lookup[c][token_id].started,
                                 dust_locked |-> dust_locked]
                           ELSE metadata_cache[t]]
                /\ lookup' = [lookup EXCEPT ![c][token_id] =
                                 [@ EXCEPT !.pc = "returned",
                                           !.result = <<dust_locked>>]]
    /\ UNCHANGED <<many, now>>

\* Mutant: future.result() is read without the try/except
Collect_NoHandler(c, token_id) ==
    /\ many[c].pc = "waiting"
    /\ lookup[c][token_id].pc \in {"returned", "raised"}
    /\ token_id \notin DOMAIN many[c].out
    /\ many' = [many EXCEPT ![c] =
                   IF lookup[c][token_id].pc = "raised"
                   THEN [@ EXCEPT !.pc = "raised"]
                   ELSE [@ EXCEPT !.out = @ @@ (token_id :> lookup[c][token_id].result[1])]]
    /\ UNCHANGED <<metadata_cache, lookup, now, upstream>>

\* get_dust_locked_many, lines 187-192: a completed future is collected; one
\* that raised yields 0.0
Collect(c, token_id) ==
    /\ many[c].pc = "waiting"
    /\ lookup[c][token_id].pc \in {"returned", "raised"}
    /\ token_id \notin DOMAIN many[c].out
    /\ many' = [many EXCEPT ![c].out =
                   @ @@ (token_id :> IF lookup[c][token_id].pc = "raised" THEN 0
                                     ELSE lookup[c][token_id].result[1])]
    /\ UNCHANGED <<metadata_cache, lookup, now, upstream>>

\* get_dust_locked_many, line 193: every future was collected
ReturnMany(c) ==
    /\ many[c].pc = "waiting"
    /\ DOMAIN many[c].out = Range(many[c].token_ids)
    /\ many' = [many EXCEPT ![c].pc = "returned"]
    /\ UNCHANGED <<metadata_cache, lookup, now, upstream>>

-----------------------------------------------------------------------------
(* app.py: the quote cache of NeverlandDataService *)

PRICE_CACHE_TTL == 20

\* a caller between two calls, and the locals of get_prices at its start
\* (got_dust and got_mon record what the upstream fetches did: <<>> not
\* attempted, << <<>> >> failed, << <<v>> >> returned v)
IdleCall ==
    [pc              |-> "idle",
     stale_prices    |-> <<>>,
     dust_usd        |-> <<>>,
     mon_usd         |-> <<>>,
     fallback_fields |-> <<>>,
     got_dust        |-> <<>>,
     got_mon         |-> <<>>]

NoReturn ==
    [caller |-> "", kind |-> "none", prices |-> <<>>, using_fallback |-> FALSE,
     fallback_fields |-> <<>>, stale_prices |-> <<>>, got_dust |-> <<>>,
     got_mon |-> <<>>, ranking |-> FALSE]

InitPriceVars ==
    /\ now = 0
    /\ price_cache = <<>>
    /\ call = <<>>
    /\ last_return = NoReturn
    /\ upstream = 0
    /\ calls = 0
    /\ payload = <<>>
    /\ InitDustVars

\* Mutant: a pair whose age equals the TTL still counts as fresh
IsFresh_Inclusive(cache, t) ==
    cache # <<>> /\ t - cache[1].ts <= PRICE_CACHE_TTL

\* get_prices, line 111: the cached pair is fresh
IsFresh(cache, t) ==
    cache # <<>> /\ t - cache[1].ts < PRICE_CACHE_TTL

\* Mutant: the stale value is reused without naming the field
QuoteOrFallback_Unflagged(outcome, stale_prices, field, fallback_fields) ==
    IF outcome # <<>>
    THEN [raised |-> FALSE, value |-> outcome, fallback_fields |-> fallback_fields]
    ELSE IF stale_prices # <<>>
    THEN [raised |-> FALSE, value |-> <<stale_prices[1][field]>>,
          fallback_fields |-> fallback_fields]
    ELSE [raised |-> TRUE, value |-> <<>>, fallback_fields |-> fallback_fields]

\* Mutant: with nothing to fall back to, a failed fetch yields 0 instead of raising
QuoteOrFallback_ZeroDefault(outcome, stale_prices, field, fallback_fields) ==
    IF outcome # <<>>
    THEN [raised |-> FALSE, value |-> outcome, fallback_fields |-> fallback_fields]
    ELSE IF stale_prices # <<>>
    THEN [raised |-> FALSE, value |-> <<stale_prices[1][field]>>,
          fallback_fields |-> Append(fallback_fields, field)]
    ELSE [raised |-> FALSE, value |-> <<0>>, fallback_fields |-> fallback_fields]

\* get_prices, lines 120-127 and 129-136: one try/except around a fetch whose
\* outcome is <<v>> or, when it raised, <<>>
QuoteOrFallback(outcome, stale_prices, field, fallback_fields) ==
    IF outcome # <<>>
    THEN [raised |-> FALSE, value |-> outcome, fallback_fields |-> fallback_fields]
    ELSE IF stale_prices # <<>>
    THEN [raised |-> FALSE, value |-> <<stale_prices[1][field]>>,
          fallback_fields |-> Append(fallback_fields, field)]
    ELSE [raised |-> TRUE, value |-> <<>>, fallback_fields |-> fallback_fields]

\* build_discount_rankings, lines 257-304: a ranking is returned iff
\* get_prices returned
RankingBuilt(get_prices_raised) == ~get_prices_raised

\* what a call that raises leaves behind
Raised(c, locals) ==
    [caller |-> c, kind |-> "raised", prices |-> <<>>, using_fallback |-> FALSE,
     fallback_fields |-> locals.fallback_fields, stale_prices |-> locals.stale_prices,
     got_dust |-> locals.got_dust, got_mon |-> locals.got_mon,
     ranking |-> RankingBuilt(TRUE)]

\* get_prices, lines 110-112: the cached pair is fresh and is returned
ReturnCached(c) ==
    /\ call[c].pc = "idle"
    /\ IsFresh(price_cache, now)
    /\ calls' = calls + 1
    /\ last_return' =
           [caller |-> c, kind |-> "cached", prices |-> <<price_cache[1].prices>>,
            using_fallback |-> FALSE, fallback_fields |-> <<>>,
            stale_prices |-> <<>>, got_dust |-> <<>>, got_mon |-> <<>>,
            ranking |-> RankingBuilt(FALSE)]
    /\ UNCHANGED <<now, price_cache, call, upstream>>

\* get_prices, lines 110-118: no fresh pair; the lock is released with the
\* expired pair, if any, kept as stale_prices
BeginRefresh(c) ==
    /\ call[c].pc = "idle"
    /\ ~IsFresh(price_cache, now)
    /\ calls' = calls + 1
    /\ call' = [call EXCEPT ![c] =
                   [IdleCall EXCEPT !.pc = "fetch_dust",
                                    !.stale_prices = IF price_cache # <<>>
                                                     THEN <<price_cache[1].prices>>
                                                     ELSE <<>>]]
    /\ UNCHANGED <<now, price_cache, last_return, upstream>>

\* get_prices, lines 120-127: _fetch_dust_usd returns or raises
FetchDust(c, outcome) ==
    /\ call[c].pc = "fetch_dust"
    /\ upstream' = upstream + 1
    /\ LET r == QuoteOrFallback(outcome, call[c].stale_prices, "dust_usd",
                                call[c].fallback_fields)
           locals == [call[c] EXCEPT !.got_dust = <<outcome>>]
       IN  IF r.raised
           THEN /\ call' = [call EXCEPT ![c] = IdleCall]
                /\ last_return' = Raised(c, locals)
           ELSE /\ call' = [call EXCEPT ![c] =
                               [locals EXCEPT !.pc = "fetch_mon",
                                              !.dust_usd = r.value,
                                              !.fallback_fields = r.fallback_fields]]
                /\ UNCHANGED last_return
    /\ UNCHANGED <<now, price_cache, calls>>

\* get_prices, lines 129-136: _fetch_mon_usd returns or raises
FetchMon(c, outcome) ==
    /\ call[c].pc = "fetch_mon"
    /\ upstream' = upstream + 1
    /\ LET r == QuoteOrFallback(outcome, call[c].stale_prices, "mon_usd",
                                call[c].fallback_fields)
           locals == [call[c] EXCEPT !.got_mon = <<outcome>>]
       IN  IF r.raised
           THEN /\ call' = [call EXCEPT ![c] = IdleCall]
                /\ last_return' = Raised(c, locals)
           ELSE /\ call' = [call EXCEPT ![c] =
                               [locals EXCEPT !.pc = "store",
                                              !.mon_usd = r.value,
                                              !.fallback_fields = r.fallback_fields]]
                /\ UNCHANGED last_return
    /\ UNCHANGED <<now, price_cache, calls>>

\* get_prices, lines 138-141: the pair is stored under the lock and returned
StorePrices(c) ==
    /\ call[c].pc = "store"
    /\ LET prices == [dust_usd |-> call[c].dust_usd[1], mon_usd |-> call[c].mon_usd[1]]
       IN  /\ price_cache' = <<[ts |-> now, prices |-> prices]>>
           /\ last_return' =
                  [caller |-> c, kind |-> "refreshed", prices |-> <<prices>>,
                   using_fallback |-> Len(call[c].fallback_fields) > 0,
                   fallback_fields |-> call[c].fallback_fields,
                   stale_prices |-> call[c].stale_prices,
                   got_dust |-> call[c].got_dust, got_mon |-> call[c].got_mon,
                   ranking |-> RankingBuilt(FALSE)]
    /\ call' = [call EXCEPT ![c] = IdleCall]
    /\ UNCHANGED <<now, upstream, calls>>

\* time passes
Tick(d) ==
    /\ now' = now + d
    /\ UNCHANGED <<price_cache, call, last_return, upstream, calls>>

-----------------------------------------------------------------------------
(* Specification SpecPrices: concurrent get_prices calls of the request     *)
(* threads of the dashboard server on one NeverlandDataService.            *)

Callers == {"c1", "c2", "c3"}

\* quotes in tenths of a USD: 2.0 and 2.1 for DUST, 1.0 and 1.1 for MON
DustQuotes == {20, 21}

MonQuotes == {10, 11}

MaxCalls == 3

MaxTime == 40

TickSteps == {PRICE_CACHE_TTL - 1, PRICE_CACHE_TTL}

Outcomes(quotes) == {<<>>} \cup {<<v>> : v \in quotes}

InitMonitorVars ==
    /\ pc = "off"
    /\ args = [wallets |-> {}, top_n |-> 0, min_undercut_mon |-> 0, once |-> TRUE]
    /\ state_file = <<>>
    /\ state = EmptyState
    /\ last_snapshot = <<>>
    /\ seen_events = <<>>
    /\ aliased = TRUE
    /\ listings = <<>>
    /\ events = <<>>
    /\ cycle_events = <<>>
    /\ emitted = <<>>
    /\ delivery = "none"
    /\ clock = 0
    /\ fetched_rows = <<>>

InitPrices ==
    /\ InitMonitorVars
    /\ now = 0
    /\ price_cache = <<>>
    /\ call = [c \in Callers |-> IdleCall]
    /\ last_return = NoReturn
    /\ upstream = 0
    /\ calls = 0
    /\ payload = <<>>
    /\ InitDustVars

NextPrices ==
    \/ \E c \in Callers : calls < MaxCalls /\ ReturnCached(c) /\ UNCHANGED <<monitorVars, payload, dustVars>>
    \/ \E c \in Callers : calls < MaxCalls /\ BeginRefresh(c) /\ UNCHANGED <<monitorVars, payload, dustVars>>
    \/ \E c \in Callers, outcome \in Outcomes(DustQuotes) :
           FetchDust(c, outcome) /\ UNCHANGED <<monitorVars, payload, dustVars>>
    \/ \E c \in Callers, outcome \in Outcomes(MonQuotes) :
           FetchMon(c, outcome) /\ UNCHANGED <<monitorVars, payload, dustVars>>
    \/ \E c \in Callers : StorePrices(c) /\ UNCHANGED <<monitorVars, payload, dustVars>>
    \/ \E d \in TickSteps : now + d <= MaxTime /\ Tick(d) /\ UNCHANGED <<monitorVars, payload, dustVars>>

SpecPrices == InitPrices /\ [][NextPrices]_vars

-----------------------------------------------------------------------------
(* Specification SpecDiff: the diff step of main() as a function of the     *)
(* previous snapshot, the fetched rows and the command line.               *)

DiffTokens == {1, 2, 3}

DiffOfferers == {"W1", "x1"}

\* 9e-8 and 1e-7 MON
DiffPrices == {900000, 1000000}

\* 5e-9, 1e-8, 1e-8 + 5e-13 and 1.5e-8 MON
DiffThresholds == {50000, 100000, 100005, 150000}

DiffWallets == {{}, {"w1"}, {"w1", "x1"}}

DiffTopN == {2}

\* an order hash per (token, offerer): an order belongs to one seller
OrderHashOf(token, offerer) == IF offerer = "W1" THEN token ELSE token + 3

RawRow(token, offerer, price) ==
    [status             |-> "active",
     remaining_quantity |-> 1,
     token_id           |-> token,
     offerer            |-> offerer,
     order_hash         |-> OrderHashOf(token, offerer),
     value              |-> price,
     decimals           |-> DEFAULT_DECIMALS]

\* one fetched batch per choice, for every token, of no listing (<<>>) or of
\* its seller and price
RECURSIVE BatchOf(_, _)
BatchOf(choice, tokens) ==
    IF tokens = {} THEN <<>>
    ELSE LET t == CHOOSE x \in tokens : \A y \in tokens : x <= y
             row == IF choice[t] = <<>> THEN <<>>
                    ELSE <<RawRow(t, choice[t][1], choice[t][2])>>
         IN  row \o BatchOf(choice, tokens \ {t})

Batches(tokens, offerers, prices) ==
    {BatchOf(choice, tokens) :
        choice \in [tokens -> {<<>>} \cup (offerers \X prices)]}

DiffBatches == Batches(DiffTokens, DiffOfferers, DiffPrices)

DiffArgs ==
    [wallets : DiffWallets, top_n : DiffTopN, min_undercut_mon : DiffThresholds,
     once : {TRUE}]

InitDiff ==
    /\ pc = "diff"
    /\ args \in DiffArgs
    /\ last_snapshot \in {<<>>} \cup {<<make_snapshot(normalize_rows(b), 0)>> : b \in DiffBatches}
    /\ listings = <<>>
    /\ events = <<>>
    /\ cycle_events = <<>>
    /\ state_file = <<>>
    /\ state = EmptyState
    /\ seen_events = <<>>
    /\ aliased = TRUE
    /\ emitted = <<>>
    /\ delivery = "none"
    /\ clock = 0
    /\ fetched_rows = <<>>
    /\ InitPriceVars

\* main(), lines 577-587, on the rows one fetch returned
DiffPoll(raw_rows) ==
    /\ pc = "diff"
    /\ pc' = "diffed"
    /\ listings' = normalize_rows(raw_rows)
    /\ cycle_events' = BuildEvents(listings_from_snapshot(last_snapshot), listings', args)
    /\ events' = cycle_events'
    /\ UNCHANGED <<args, state_file, state, last_snapshot, seen_events, aliased,
                   emitted, delivery, clock>>
    /\ UNCHANGED <<fetched_rows, priceVars, dustVars>>

NextDiff == \E raw_rows \in DiffBatches : DiffPoll(raw_rows)

SpecDiff == InitDiff /\ [][NextDiff]_vars

-----------------------------------------------------------------------------
(* Claims on the diff step, checked under SpecDiff *)

Diffed == pc = "diffed"

Previous == listings_from_snapshot(last_snapshot)

EventsOfType(type) == SelectSeq(cycle_events, LAMBDA e : e.event_type = type)

UndercutsFor(token_id) ==
    SelectSeq(EventsOfType("undercut"), LAMBDA e : e.token_id = token_id)

\* C3 as stated: the diff step of main() on a previous and a current
\* snapshot with the same listings yields an empty event list.
C3_IdenticalSnapshotsNoEvents ==
    (Diffed /\ Previous = listings) => cycle_events = <<>>

\* C3 as amended: on a previous and a current snapshot with the same
\* listings the diff step yields no rank_change and no wallet event; every
\* event of the list is an undercut event.
C3_IdenticalSnapshotsOnlyUndercuts ==
    (Diffed /\ Previous = listings) =>
        \A i \in 1..Len(cycle_events) : cycle_events[i].event_type = "undercut"

\* C3 witness: identical non-empty snapshots for which the list holds an undercut
C3_Witness ==
    /\ Diffed
    /\ Previous = listings
    /\ Len(listings) = 3
    /\ cycle_events # <<>>

\* The rows the three exclusions of C9 are about
C9_Excluded(row) ==
    \/ args.wallets = {}
    \/ row.rank = 1
    \/ row.rank > 1 /\ listings[row.rank - 1].seller \in args.wallets

\* C9: detect_undercuts emits no undercut event for a listing at rank 1, for
\* a listing whose immediately preceding listing belongs to a tracked
\* wallet, or when the set of tracked wallets is empty.
C9_NoUndercutWhenExcluded ==
    Diffed =>
        \A i \in 1..Len(listings) :
            C9_Excluded(listings[i]) => UndercutsFor(listings[i].token_id) = <<>>

\* C9 witness: a diff with a tracked listing at rank 1, a tracked listing
\* right below a tracked and strictly cheaper one, and an undercut elsewhere
C9_Witness ==
    /\ Diffed
    /\ Previous # <<>>
    /\ Len(listings) = 3
    /\ listings[1].seller \in args.wallets
    /\ listings[2].seller \in args.wallets
    /\ listings[1].price_native < listings[2].price_native
    /\ args.min_undercut_mon <= listings[2].price_native - listings[1].price_native
    /\ EventsOfType("undercut") = <<>>

\* The rows C10 is about: tracked, at rank r > 1, below an untracked and
\* strictly cheaper listing
C10_Case(row) ==
    /\ row.seller \in args.wallets
    /\ row.rank > 1
    /\ listings[row.rank - 1].seller \notin args.wallets
    /\ listings[row.rank - 1].price_native < row.price_native

C10_Gap(row) == row.price_native - listings[row.rank - 1].price_native

C10_EventRight(row) ==
    LET es == UndercutsFor(row.token_id)
    IN  /\ Len(es) = 1
        /\ es[1].undercut_by = C10_Gap(row)
        /\ es[1].self_rank = row.rank
        /\ es[1].competitor_rank = row.rank - 1

\* C10 as stated: for such a row exactly one undercut event is emitted iff
\* own price - superior price >= min_undercut_mon, and none otherwise; the
\* event carries the price difference and the ranks r and r - 1.
C10_UndercutIffGapAtLeastThreshold ==
    (Diffed /\ Previous # <<>>) =>
        \A i \in 1..Len(listings) :
            C10_Case(listings[i]) =>
                IF C10_Gap(listings[i]) >= args.min_undercut_mon
                THEN C10_EventRight(listings[i])
                ELSE UndercutsFor(listings[i].token_id) = <<>>

\* C10 as amended: for such a row exactly one undercut event is emitted iff
\* own price - superior price + 1e-12 >= min_undercut_mon, and none
\* otherwise; the event carries the price difference and the ranks r, r - 1.
C10_UndercutIffGapWithinTolerance ==
    (Diffed /\ Previous # <<>>) =>
        \A i \in 1..Len(listings) :
            C10_Case(listings[i]) =>
                IF C10_Gap(listings[i]) + UNDERCUT_EPS >= args.min_undercut_mon
                THEN C10_EventRight(listings[i])
                ELSE UndercutsFor(listings[i].token_id) = <<>>

\* C10 witness: the tracked listing at rank 3, 1e-8 MON above the untracked
\* one at rank 2, fires at the threshold 1e-8 MON (the example of the claim,
\* at 1e-8 of its prices)
C10_Witness ==
    /\ Diffed
    /\ Previous # <<>>
    /\ Len(listings) = 3
    /\ C10_Case(listings[3])
    /\ C10_Gap(listings[3]) = 100000
    /\ args.min_undercut_mon = 100000
    /\ C10_EventRight(listings[3])

\* the tokens a tracked seller lists in a ranking
TrackedTokens(rows) ==
    {rows[i].token_id : i \in {j \in 1..Len(rows) : rows[j].seller \in args.wallets}}

RankOfToken(rows, token_id) ==
    rows[CHOOSE i \in 1..Len(rows) : rows[i].token_id = token_id].rank

WalletEvents == detect_wallet_rank_changes(Previous, listings, args.wallets)

WalletEventsFor(token_id, type) ==
    SelectSeq(WalletEvents, LAMBDA e : e.token_id = token_id /\ e.event_type = type)

IsWalletEvent(e) ==
    e.event_type \in {"wallet_listing_new", "wallet_rank_changed", "wallet_listing_missing"}

\* C23: per token, detect_wallet_rank_changes returns at most one event:
\* wallet_rank_changed iff a tracked seller lists the token in both
\* snapshots at different ranks, wallet_listing_new iff only in the current
\* one, wallet_listing_missing iff only in the previous one; with a baseline
\* these are the wallet events of the cycle.
C23_OneWalletEventPerToken ==
    Diffed =>
        LET before == TrackedTokens(Previous)
            after  == TrackedTokens(listings)
        IN  /\ \A t \in DiffTokens :
                   /\ Len(SelectSeq(WalletEvents, LAMBDA e : e.token_id = t)) <= 1
                   /\ (WalletEventsFor(t, "wallet_rank_changed") # <<>>)
                          = (/\ t \in before \cap after
                             /\ RankOfToken(Previous, t) # RankOfToken(listings, t))
                   /\ (WalletEventsFor(t, "wallet_listing_new") # <<>>)
                          = (t \in after \ before)
                   /\ (WalletEventsFor(t, "wallet_listing_missing") # <<>>)
                          = (t \in before \ after)
            /\ \A i \in 1..Len(WalletEvents) : IsWalletEvent(WalletEvents[i])
            /\ Previous # <<>> => SelectSeq(cycle_events, IsWalletEvent) = WalletEvents

\* one tracked token changed rank, another went missing and a third one is new
C23_Witness ==
    /\ Diffed
    /\ Previous # <<>>
    /\ EventsOfType("wallet_rank_changed") # <<>>
    /\ EventsOfType("wallet_listing_missing") # <<>>
    /\ EventsOfType("wallet_listing_new") # <<>>
    /\ Len(SelectSeq(cycle_events, IsWalletEvent)) = 3

-----------------------------------------------------------------------------
(* Specification SpecTopRank: the diff step on rankings of up to MaxTop     *)
(* tokens, long enough for more than 12 positions of the top list to move. *)

MaxTop == 14

\* more positions than moved_positions may hold
TopWidths == {2, MAX_MOVED + 1}

\* tokens 1..n but `skip`, dearer with every token
TopBatch(n, skip) ==
    LET tokens == SelectSeq([t \in 1..n |-> t], LAMBDA t : t # skip)
    IN  [i \in 1..Len(tokens) |-> RawRow(tokens[i], "x1", 900000 + tokens[i])]

TopBatches == {TopBatch(n, skip) : n \in {MaxTop - 1, MaxTop}, skip \in 0..MaxTop}

InitTopRank ==
    /\ pc = "diff"
    /\ args \in [wallets : {{"w1"}}, top_n : TopWidths, min_undercut_mon : {50000},
                  once : {TRUE}]
    /\ last_snapshot \in {<<>>} \cup {<<make_snapshot(normalize_rows(b), 0)>> : b \in TopBatches}
    /\ listings = <<>>
    /\ events = <<>>
    /\ cycle_events = <<>>
    /\ state_file = <<>>
    /\ state = EmptyState
    /\ seen_events = <<>>
    /\ aliased = TRUE
    /\ emitted = <<>>
    /\ delivery = "none"
    /\ clock = 0
    /\ fetched_rows = <<>>
    /\ InitPriceVars

NextTopRank == \E raw_rows \in TopBatches : DiffPoll(raw_rows)

SpecTopRank == InitTopRank /\ [][NextTopRank]_vars

\* the token at a position of a top list, 0 when the list is shorter
TokenAt(rows, position) ==
    IF position <= Len(rows) THEN rows[position].token_id ELSE 0

TopEvent == detect_top_rank_change(Previous, listings, args.top_n)

\* C24: detect_top_rank_change returns an event iff the token ids of the
\* first top_n listings differ between the snapshots; the event's
\* moved_positions has between 1 and 12 entries, in increasing position, each
\* a position of 1..top_n at which the tokens differ, recorded with both
\* tokens; with a baseline this is the rank_change event of the cycle.
C24_TopChangeIffTopDiffers ==
    Diffed =>
        /\ (TopEvent # <<>>)
               = (\E k \in 1..args.top_n : TokenAt(Previous, k) # TokenAt(listings, k))
        /\ TopEvent # <<>> =>
               LET moved == TopEvent[1].moved_positions
               IN  /\ Len(moved) >= 1
                   /\ Len(moved) <= MAX_MOVED
                   /\ \A k \in 1..Len(moved) :
                          /\ moved[k].position \in 1..args.top_n
                          /\ moved[k].before_token = TokenAt(Previous, moved[k].position)
                          /\ moved[k].after_token = TokenAt(listings, moved[k].position)
                          /\ moved[k].before_token # moved[k].after_token
                          /\ k > 1 => moved[k - 1].position < moved[k].position
        /\ Previous # <<>> => EventsOfType("rank_change") = TopEvent

\* thirteen positions of the top list moved and twelve are reported
C24_Witness ==
    /\ Diffed
    /\ args.top_n = MAX_MOVED + 1
    /\ Cardinality({k \in 1..args.top_n : TokenAt(Previous, k) # TokenAt(listings, k)})
           = MAX_MOVED + 1
    /\ EventsOfType("rank_change") # <<>>
    /\ Len(EventsOfType("rank_change")[1].moved_positions) = MAX_MOVED

-----------------------------------------------------------------------------
(* Specification SpecNormalize: normalize_rows applied to one fetched       *)
(* collection of raw records, duplicates and rejected records included.    *)

MaxRows == 3

NormRow(token, offerer, hash, price, status) ==
    [status             |-> status,
     remaining_quantity |-> 1,
     token_id           |-> token,
     offerer            |-> offerer,
     order_hash         |-> hash,
     value              |-> price,
     decimals           |-> DEFAULT_DECIMALS]

\* records of token "2" with every seller, order hash ("" is 0) and price,
\* records of token "10" at both prices, and one cancelled record
NormRows ==
    {NormRow(2, o, h, p, "active") : o \in DiffOfferers, h \in {0, 1}, p \in DiffPrices}
        \cup {NormRow(10, "x1", 1, p, "active") : p \in DiffPrices}
        \cup {NormRow(2, "x1", 1, 900000, "cancelled")}

SeqsUpTo(S, n) == UNION {[1..k -> S] : k \in 0..n}

NormBatches == SeqsUpTo(NormRows, MaxRows)

InitNormalize ==
    /\ pc = "fetched"
    /\ args = [wallets |-> {}, top_n |-> 0, min_undercut_mon |-> 0, once |-> TRUE]
    /\ state_file = <<>>
    /\ state = EmptyState
    /\ last_snapshot = <<>>
    /\ seen_events = <<>>
    /\ aliased = TRUE
    /\ listings = <<>>
    /\ events = <<>>
    /\ cycle_events = <<>>
    /\ emitted = <<>>
    /\ delivery = "none"
    /\ clock = 0
    /\ fetched_rows = <<>>
    /\ InitPriceVars

\* main(), lines 569-578 and 617-618: the fetched records are normalised; an
\* exception of normalize_rows ends the cycle in "Poll error" with no listings
Normalize(raw_rows) ==
    /\ pc = "fetched"
    /\ fetched_rows' = raw_rows
    /\ IF normalize_rows_raises(raw_rows)
       THEN /\ pc' = "poll_error"
            /\ listings' = <<>>
       ELSE /\ pc' = "normalized"
            /\ listings' = normalize_rows(raw_rows)
    /\ UNCHANGED <<args, state_file, state, last_snapshot, seen_events, aliased,
                   events, cycle_events, emitted, delivery, clock>>
    /\ UNCHANGED <<priceVars, dustVars>>

NextNormalize == \E raw_rows \in NormBatches : Normalize(raw_rows)

SpecNormalize == InitNormalize /\ [][NextNormalize]_vars

-----------------------------------------------------------------------------
(* Claims on normalisation, checked under SpecNormalize *)

Normalized == pc = "normalized"

\* every reordering of a sequence
Reorderings(s) ==
    {[i \in 1..Len(s) |-> s[f[i]]] :
        f \in {g \in [1..Len(s) -> 1..Len(s)] :
                  \A i, j \in 1..Len(s) : i # j => g[i] # g[j]}}

\* the active records of the input for one token
RecordsOf(token_id) == {r \in ParsedRows(fetched_rows) : r.token_id = token_id}

\* C11: no two listings returned by normalize_rows share a token_id.
C11_OneListingPerToken ==
    Normalized =>
        \A i, j \in 1..Len(listings) :
            listings[i].token_id = listings[j].token_id => i = j

\* three records of one token went in and one listing came out
C11_Witness ==
    /\ Normalized
    /\ Len(fetched_rows) = 3
    /\ Cardinality(RecordsOf(2)) = 3
    /\ Len(listings) = 1

\* C12 (as claimed): every permutation of the input records yields the same
\* listings as the order in which they were fetched.
C12_DedupIndependentOfOrder ==
    Normalized => \A p \in Reorderings(fetched_rows) : normalize_rows(p) = listings

\* C13: listings are ranked by price and, at equal price, by the string order
\* of their token ids; no two listings tie; and every permutation of the
\* input ranks the same tokens at the same ranks.
C13_RankIsStrictTotalOrder ==
    Normalized =>
        /\ \A i, j \in 1..Len(listings) :
               LET a == listings[i]
                   b == listings[j]
               IN  /\ a.price_native < b.price_native => a.rank < b.rank
                   /\ (a.price_native = b.price_native
                          /\ SeqLess(TokenStr(a.token_id), TokenStr(b.token_id)))
                         => a.rank < b.rank
                   /\ i # j => a.rank # b.rank
        /\ \A p \in Reorderings(fetched_rows) :
               LET other == normalize_rows(p)
               IN  /\ Len(other) = Len(listings)
                   /\ \A i \in 1..Len(listings) :
                          /\ other[i].token_id = listings[i].token_id
                          /\ other[i].rank = listings[i].rank
                          /\ other[i].price_native = listings[i].price_native

\* tokens "10" and "2" at one price, "10" first, out of an input that also
\* held a dearer record of token "2"
C13_Witness ==
    /\ Normalized
    /\ Len(fetched_rows) = 3
    /\ Cardinality(RecordsOf(2)) = 2
    /\ Len(listings) = 2
    /\ listings[1].token_id = 10
    /\ listings[2].token_id = 2
    /\ listings[1].price_native = listings[2].price_native

\* C14: the listing at position i (counted from 1) has rank i, so for every
\* listing of rank r > 1 the position detect_undercuts reads, r - 1 counted
\* from 1, exists and holds the listing of rank r - 1.
C14_RankIsPosition ==
    Normalized =>
        /\ \A i \in 1..Len(listings) : listings[i].rank = i
        /\ \A i \in 1..Len(listings) :
               listings[i].rank > 1 =>
                   /\ listings[i].rank - 1 \in 1..Len(listings)
                   /\ listings[listings[i].rank - 1].rank = listings[i].rank - 1

C14_Witness ==
    /\ Normalized
    /\ Len(listings) = 2
    /\ listings[2].rank = 2
    /\ listings[listings[2].rank - 1].rank = 1

-----------------------------------------------------------------------------
(* Specification SpecMalformed: normalize_rows applied to a fetched         *)
(* collection that holds records of an unexpected shape.                    *)

\* a shape of record the parser was not written for
Shapes == {"protocol_data_not_mapping", "price_not_mapping",
           "value_not_numeric", "offer_not_list"}

\* an active record of a token whose field named by shape has another type
MalformedRow(token, shape) ==
    [malformed          |-> shape,
     status             |-> "active",
     remaining_quantity |-> 1,
     token_id           |-> token,
     offerer            |-> "x1",
     order_hash         |-> 1,
     value              |-> 900000,
     decimals           |-> DEFAULT_DECIMALS]

\* well-formed records of tokens "2" and "10", one malformed record of token
\* "3" per shape
MalformedBatches ==
    SeqsUpTo({NormRow(2, "W1", 1, 900000, "active"),
              NormRow(10, "x1", 0, 1000000, "active")}
                 \cup {MalformedRow(3, shape) : shape \in Shapes}, MaxRows)

NextMalformed == \E raw_rows \in MalformedBatches : Normalize(raw_rows)

SpecMalformed == InitNormalize /\ [][NextMalformed]_vars

\* the records of the fetched collection that have the documented shape
WellFormed == SelectSeq(fetched_rows, LAMBDA raw : Shape(raw) = "none")

\* C22: a raw record that cannot be normalized is dropped by normalize_rows
\* without raising, and the other records of the batch are normalized and
\* ranked as if the record were absent
C22_MalformedRecordDropped ==
    pc # "fetched" =>
        /\ pc = "normalized"
        /\ listings = normalize_rows(WellFormed)

-----------------------------------------------------------------------------
(* Specification SpecMonitor: main() of monitor.py, one process after the   *)
(* other on the same state file.                                           *)

MaxPolls == 3

MonitorTokens == {1, 2}

MonitorBatches == Batches(MonitorTokens, DiffOfferers, DiffPrices)

MonitorArgs ==
    [wallets : {{"w1"}}, top_n : {2}, min_undercut_mon : {50000}, once : {FALSE}]

InitMonitor ==
    /\ pc = "load"
    /\ args \in MonitorArgs
    /\ state_file = <<>>
    /\ state = EmptyState
    /\ last_snapshot = <<>>
    /\ seen_events = <<>>
    /\ aliased = TRUE
    /\ listings = <<>>
    /\ events = <<>>
    /\ cycle_events = <<>>
    /\ emitted = <<>>
    /\ delivery = "none"
    /\ clock = 0
    /\ fetched_rows = <<>>
    /\ InitPriceVars

\* main(), lines 555-560: a process starts and loads the state file
LoadState ==
    /\ pc = "load"
    /\ LET loaded == load_state(state_file)
       IN  IF loaded.kind # "dict"
           THEN \* load_state raised, or state.get raises AttributeError
                /\ pc' = "crashed"
                /\ UNCHANGED <<state, last_snapshot, seen_events>>
           ELSE /\ pc' = "fetch"
                /\ state' = IF loaded.seen_is_dict THEN loaded.value
                             ELSE [loaded.value EXCEPT !.seen_events = <<>>]
                /\ last_snapshot' = state'.last_snapshot
                /\ seen_events' = state'.seen_events
    /\ aliased' = TRUE
    /\ emitted' = <<>>
    /\ delivery' = "none"
    /\ listings' = <<>>
    /\ events' = <<>>
    /\ cycle_events' = <<>>
    /\ UNCHANGED <<args, state_file, clock>>
    /\ UNCHANGED <<fetched_rows, priceVars, dustVars>>

\* main(), lines 569-589: the fetch succeeds; normalise and diff
FetchOk(raw_rows) ==
    /\ pc = "fetch"
    /\ clock < MaxPolls
    /\ clock' = clock + 1
    /\ listings' = normalize_rows(raw_rows)
    /\ cycle_events' = BuildEvents(listings_from_snapshot(last_snapshot), listings', args)
    /\ events' = cycle_events'
    /\ pc' = "emit"
    /\ UNCHANGED <<args, state_file, state, last_snapshot, seen_events, aliased,
                   emitted, delivery>>
    /\ UNCHANGED <<fetched_rows, priceVars, dustVars>>

\* Mutant: a failed fetch ends the process
FetchFail_Terminates ==
    /\ pc = "fetch"
    /\ clock < MaxPolls
    /\ clock' = clock + 1
    /\ pc' = "stopped"
    /\ UNCHANGED <<args, state_file, state, last_snapshot, seen_events, aliased,
                   listings, events, cycle_events, emitted, delivery>>
    /\ UNCHANGED <<fetched_rows, priceVars, dustVars>>

\* main(), lines 617-622: the fetch raises; "Poll error" is logged
FetchFail ==
    /\ pc = "fetch"
    /\ clock < MaxPolls
    /\ clock' = clock + 1
    /\ pc' = IF args.once THEN "stopped" ELSE "sleep"
    /\ UNCHANGED <<args, state_file, state, last_snapshot, seen_events, aliased,
                   listings, events, cycle_events, emitted, delivery>>
    /\ UNCHANGED <<fetched_rows, priceVars, dustVars>>

\* main(), lines 592-606: one iteration of the loop over events.  Delivery
\* (post_discord, mac_notify, run_event_command) swallows its own failures.
EmitEvent(outcome) ==
    /\ pc = "emit"
    /\ events # <<>>
    /\ LET event_id == Head(events).event_id
       IN  IF event_id = <<>> \/ ~should_emit(event_id, seen_events)
           THEN /\ outcome = "ok"
                /\ UNCHANGED <<seen_events, state, emitted, delivery>>
           ELSE /\ seen_events' = RecordSeen(seen_events, event_id, clock)
                /\ state' = IF aliased THEN [state EXCEPT !.seen_events = seen_events']
                                       ELSE state
                /\ emitted' = Append(emitted, event_id)
                /\ delivery' = outcome
    /\ events' = Tail(events)
    /\ UNCHANGED <<pc, args, state_file, last_snapshot, aliased, listings, cycle_events, clock>>
    /\ UNCHANGED <<fetched_rows, priceVars, dustVars>>

\* main(), lines 611-613 and 620-622: the snapshot becomes the baseline and
\* the state is saved
Persist ==
    /\ pc = "emit"
    /\ events = <<>>
    /\ last_snapshot' = <<make_snapshot(listings, clock)>>
    /\ state' = save_state([state EXCEPT !.last_snapshot = last_snapshot'])
    /\ aliased' = (aliased /\ state'.seen_events = state.seen_events)
    /\ state_file' = <<state'>>
    /\ pc' = IF args.once THEN "stopped" ELSE "sleep"
    /\ UNCHANGED <<args, seen_events, listings, events, cycle_events, emitted, delivery, clock>>
    /\ UNCHANGED <<fetched_rows, priceVars, dustVars>>

\* main(), line 622: the interval passes
Sleep ==
    /\ pc = "sleep"
    /\ pc' = "fetch"
    /\ UNCHANGED <<args, state_file, state, last_snapshot, seen_events, aliased,
                   listings, events, cycle_events, emitted, delivery, clock>>
    /\ UNCHANGED <<fetched_rows, priceVars, dustVars>>

\* main(), lines 614-616: KeyboardInterrupt inside the try block
Interrupt ==
    /\ pc \in {"fetch", "emit"}
    /\ pc' = "stopped"
    /\ UNCHANGED <<args, state_file, state, last_snapshot, seen_events, aliased,
                   listings, events, cycle_events, emitted, delivery, clock>>
    /\ UNCHANGED <<fetched_rows, priceVars, dustVars>>

\* a later start of the monitor on the same state file
Restart ==
    /\ pc = "stopped"
    /\ pc' = "load"
    /\ UNCHANGED <<args, state_file, state, last_snapshot, seen_events, aliased,
                   listings, events, cycle_events, emitted, delivery, clock>>
    /\ UNCHANGED <<fetched_rows, priceVars, dustVars>>

NextMonitor ==
    \/ LoadState
    \/ \E raw_rows \in MonitorBatches : FetchOk(raw_rows)
    \/ FetchFail
    \/ \E outcome \in {"ok", "failed"} : EmitEvent(outcome)
    \/ Persist
    \/ Sleep
    \/ Interrupt
    \/ Restart

SpecMonitor == InitMonitor /\ [][NextMonitor]_vars

-----------------------------------------------------------------------------
(* Claims on the polling loop, checked under SpecMonitor *)

\* C1: within one process run an event id that was emitted (logged and
\* handed to delivery) is never emitted again, in the same or a later cycle,
\* whether or not its delivery succeeded.
C1_NoIdEmittedTwice ==
    \A i, j \in 1..Len(emitted) : i # j => emitted[i] # emitted[j]

\* C1 witness: the id emitted last, whose delivery failed in an earlier
\* cycle, was detected again by this cycle, whose loop ended without
\* emitting it
C1_Witness ==
    /\ pc = "emit"
    /\ events = <<>>
    /\ emitted # <<>>
    /\ delivery = "failed"
    /\ seen_events[emitted[Len(emitted)]] < clock
    /\ \E i \in 1..Len(cycle_events) : cycle_events[i].event_id = emitted[Len(emitted)]

\* A cycle has just reached save_state
CycleSaved ==
    /\ pc = "sleep"
    /\ last_snapshot # <<>>
    /\ last_snapshot[1].captured_at = clock

\* The ids the retention rule keeps of all the ids the process knows
NotEvicted ==
    IF Cardinality(DOMAIN seen_events) > MaxSeenKept
    THEN TrimmedKeys(seen_events)
    ELSE DOMAIN seen_events

\* C2: after each completed cycle every id recorded so far, and not removed
\* by the retention rule, is in the persisted seen_events (so that a later
\* start on the same file does not emit it again).
C2_RecordedIdsPersisted ==
    CycleSaved => NotEvicted \subseteq DOMAIN state_file[1].seen_events

-----------------------------------------------------------------------------
(* Specification SpecStartup: the monitor started on every kind of state    *)
(* file, followed by its first polls.                                      *)

MaxStartPolls == 2

StartFiles ==
    {<<>>, <<EmptyState>>} \cup {<<[corrupt |-> k]>> : k \in CorruptKinds}

InitStartup ==
    /\ pc = "load"
    /\ args \in MonitorArgs
    /\ state_file \in StartFiles
    /\ state = EmptyState
    /\ last_snapshot = <<>>
    /\ seen_events = <<>>
    /\ aliased = TRUE
    /\ listings = <<>>
    /\ events = <<>>
    /\ cycle_events = <<>>
    /\ emitted = <<>>
    /\ delivery = "none"
    /\ clock = 0
    /\ fetched_rows = <<>>
    /\ InitPriceVars

NextStartup ==
    \/ LoadState
    \/ \E raw_rows \in MonitorBatches : clock < MaxStartPolls /\ FetchOk(raw_rows)
    \/ clock < MaxStartPolls /\ FetchFail
    \/ \E outcome \in {"ok", "failed"} : EmitEvent(outcome)
    \/ Persist
    \/ Sleep
    \/ Interrupt
    \/ Restart

SpecStartup == InitStartup /\ [][NextStartup]_vars

\* C17 (as claimed): a start on a state file that is missing or cannot be
\* used never ends the monitor; it goes on to its first fetch with the empty
\* state {last_snapshot: none, seen_events: {}}.
C17_UnusableFileStartsEmpty ==
    [][(pc = "load" /\ (state_file = <<>> \/ IsCorrupt(state_file)))
           => /\ pc' = "fetch"
              /\ state' = EmptyState
              /\ last_snapshot' = <<>>
              /\ seen_events' = <<>>]_vars

\* the ids this cycle recorded in the seen set
RecordedThisCycle == {id \in DOMAIN seen_events : seen_events[id] = clock}

\* C15 (as claimed): when the process is stopped inside a cycle that has
\* recorded ids in the seen set, the state file it leaves holds every id of
\* the seen set and that cycle's snapshot.  (Stated for runs in which the
\* retention rule has removed nothing.)
C15_StopPersistsCycle ==
    [][(/\ pc = "emit"
        /\ pc' = "stopped"
        /\ RecordedThisCycle # {}
        /\ aliased
        /\ Cardinality(DOMAIN seen_events) <= MaxSeenKept)
           => /\ state_file' # <<>>
              /\ DOMAIN seen_events \subseteq DOMAIN state_file'[1].seen_events
              /\ state_file'[1].last_snapshot = <<make_snapshot(listings, clock)>>]_vars

\* the cycle whose fetch fails: the poll is counted and no diff is run
FetchFailed == pc = "fetch" /\ clock' = clock + 1 /\ pc' # "emit"

\* C16: a cycle whose fetch fails emits nothing, writes no state file and
\* leaves last_snapshot and the seen set as they were; outside --once mode the
\* loop goes on to sleep, and the cycle after the interval starts from the
\* same baseline and the same file.
C16_FailedFetchSkipsCycle ==
    [][/\ FetchFailed
           => /\ emitted' = emitted
              /\ state_file' = state_file
              /\ last_snapshot' = last_snapshot
              /\ seen_events' = seen_events
              /\ ~args.once => pc' = "sleep"
       /\ pc = "sleep"
           => /\ pc' = "fetch"
              /\ last_snapshot' = last_snapshot
              /\ seen_events' = seen_events
              /\ state_file' = state_file]_vars

\* the loop sleeps after a cycle that saved nothing: its baseline is the
\* snapshot of an earlier cycle
C16_Witness ==
    /\ pc = "sleep"
    /\ state_file # <<>>
    /\ last_snapshot # <<>>
    /\ last_snapshot[1].captured_at < clock
    /\ seen_events # <<>>

\* this step is the call of save_state that ends a cycle
Saves == pc = "emit" /\ events = <<>> /\ pc' = "sleep"

\* K holds the n greatest keys of the mapping
GreatestKeys(K, mapping, n) ==
    /\ K \subseteq DOMAIN mapping
    /\ Cardinality(K) = n
    /\ \A k \in K : \A j \in (DOMAIN mapping) \ K : SeqLess(j, k)

\* C18: what save_state writes has at most MaxSeenKept (for 5000) seen
\* ids; when the mapping passed in has more, exactly its MaxSeenKept
\* lexicographically greatest keys are written, with their timestamps; when
\* it has no more than that, it is written unchanged.
C18_SaveKeepsGreatestKeys ==
    [][Saves =>
          LET passed  == state.seen_events
              written == state_file'[1].seen_events
          IN  /\ Cardinality(DOMAIN written) <= MaxSeenKept
              /\ IF Cardinality(DOMAIN passed) > MaxSeenKept
                 THEN /\ GreatestKeys(DOMAIN written, passed, MaxSeenKept)
                      /\ \A k \in DOMAIN written : written[k] = passed[k]
                 ELSE written = passed]_vars

\* a save has just trimmed the seen set: the process knows more ids than the
\* file holds
C18_Witness ==
    /\ CycleSaved
    /\ Cardinality(DOMAIN seen_events) > MaxSeenKept
    /\ Cardinality(DOMAIN state_file[1].seen_events) = MaxSeenKept
    /\ ~aliased

\* this step is one iteration of the loop over the cycle's events
Iterates == pc = "emit" /\ events # <<>> /\ events' = Tail(events)

\* C19: should_emit(id, seen) is true iff id is not a key of seen; an id is
\* emitted iff it is not empty and should_emit is true for it, it is then a
\* key of seen and should_emit is false for it and for every id emitted so
\* far; recording a key that is present leaves the set of keys as it was.
C19_ShouldEmitIffAbsent ==
    [][/\ Iterates =>
              LET event_id == Head(events).event_id
              IN  /\ should_emit(event_id, seen_events) = (event_id \notin DOMAIN seen_events)
                  /\ (emitted' # emitted)
                         = (event_id # <<>> /\ event_id \notin DOMAIN seen_events)
                  /\ emitted' # emitted
                         => /\ ~should_emit(event_id, seen_events')
                            /\ DOMAIN seen_events' = DOMAIN seen_events \cup {event_id}
       /\ \A k \in DOMAIN seen_events :
              DOMAIN RecordSeen(seen_events, k, clock) = DOMAIN seen_events
       /\ \A i \in 1..Len(emitted') : ~should_emit(emitted'[i], seen_events')]_vars

\* an id recorded by an earlier cycle is next in the loop and is held back
C19_Witness ==
    /\ pc = "emit"
    /\ events # <<>>
    /\ Head(events).event_id \in DOMAIN seen_events
    /\ seen_events[Head(events).event_id] < clock
    /\ ~should_emit(Head(events).event_id, seen_events)

\* 1 for the top-rank-change event, 2 for a wallet event, 3 for an undercut
EventClass(e) ==
    IF e.event_type = "rank_change" THEN 1
    ELSE IF e.event_type = "undercut" THEN 3
    ELSE 2

\* C25: in the event list of a cycle the rank_change event (at most one)
\* comes before every wallet event and every wallet event before every
\* undercut event; the loop takes the events in that order: what is left to
\* emit is a suffix of the list, and the id emitted is that of its head.
C25_EventsOrderedByKind ==
    [][/\ \A i, j \in 1..Len(cycle_events') :
              i < j => EventClass(cycle_events'[i]) <= EventClass(cycle_events'[j])
       /\ Len(SelectSeq(cycle_events', LAMBDA e : e.event_type = "rank_change")) <= 1
       /\ pc' = "emit" =>
              events' = SubSeq(cycle_events', Len(cycle_events') - Len(events') + 1,
                               Len(cycle_events'))
       /\ (pc # "load" /\ emitted' # emitted) =>
              /\ pc = "emit"
              /\ events # <<>>
              /\ emitted' = Append(emitted, Head(events).event_id)
              /\ events' = Tail(events)]_vars

\* a cycle with an event of each kind, all three emitted in the order of the
\* list
C25_Witness ==
    /\ pc = "emit"
    /\ events = <<>>
    /\ Len(cycle_events) = 3
    /\ cycle_events[1].event_type = "rank_change"
    /\ cycle_events[2].event_type = "wallet_rank_changed"
    /\ cycle_events[3].event_type = "undercut"
    /\ emitted = [i \in 1..3 |-> cycle_events[i].event_id]

\* C30: a cycle whose baseline is missing or holds no listing builds no
\* event, whatever the current ranking holds, and so emits nothing; the save
\* that ends a cycle makes the current ranking the baseline.
C30_NoEventsWithoutBaseline ==
    [][/\ (pc' = "emit" /\ listings_from_snapshot(last_snapshot') = <<>>)
              => cycle_events' = <<>> /\ events' = <<>>
       /\ (pc = "emit" /\ listings_from_snapshot(last_snapshot) = <<>>)
              => emitted' = emitted
       /\ Saves => /\ last_snapshot' = <<make_snapshot(listings, clock)>>
                   /\ listings_from_snapshot(last_snapshot') = listings]_vars

\* the baseline is a saved snapshot without listings, the current ranking
\* has a tracked listing that an untracked seller undercuts, and the cycle
\* has no event
C30_Witness ==
    /\ pc = "emit"
    /\ last_snapshot # <<>>
    /\ last_snapshot[1].listings = <<>>
    /\ Len(listings) = 2
    /\ listings[2].seller \in args.wallets
    /\ listings[1].seller \notin args.wallets
    /\ listings[2].price_native - listings[1].price_native >= args.min_undercut_mon
    /\ cycle_events = <<>>

\* C26 (as claimed): at the start of every poll cycle the mapping main
\* consults and fills is the mapping state["seen_events"] that save_state
\* writes: the same object, hence with the same content and no more than
\* the retained number of keys once a save has trimmed it.
C26_SeenIsStateSeen ==
    pc = "fetch" =>
        /\ aliased
        /\ seen_events = state.seen_events
        /\ state_file # <<>> => Cardinality(DOMAIN seen_events) <= MaxSeenKept

-----------------------------------------------------------------------------
(* app.py: build_discount_rankings.  Prices of this part are in whole MON   *)
(* (value counts units of 10^18 wei), locked amounts in whole DUST, quotes  *)
(* in tenths of a USD; a discount percentage is kept as the exact fraction  *)
(* num / den of its value divided by 100.                                   *)

\* NeverlandDataService._parse_listing: Optional parsed row
app_parse_listing(raw) ==
    IF Upper(raw.status) # "ACTIVE" THEN <<>>
    ELSE IF raw.token_id = 0 THEN <<>>
    ELSE IF Lower(raw.offerer) = "" THEN <<>>
    ELSE LET decimals == IF raw.decimals < 0 THEN DEFAULT_DECIMALS ELSE raw.decimals
         IN  << [token_id   |-> raw.token_id,
                 seller     |-> Lower(raw.offerer),
                 order_hash |-> raw.order_hash,
                 price_wei  |-> raw.value,
                 price_mon  |-> raw.value * Pow10(DEFAULT_DECIMALS - decimals)] >>

\* build_discount_rankings, lines 250-255: best_by_token as the sequence of
\* its values in insertion order
RECURSIVE BestByToken(_, _)
BestByToken(raw_rows, best) ==
    IF raw_rows = <<>> THEN best
    ELSE LET parsed == app_parse_listing(Head(raw_rows))
         IN  IF parsed = <<>> THEN BestByToken(Tail(raw_rows), best)
             ELSE LET row == parsed[1]
                      at  == {i \in 1..Len(best) : best[i].token_id = row.token_id}
                  IN  IF at = {}
                      THEN BestByToken(Tail(raw_rows), Append(best, row))
                      ELSE LET i == CHOOSE k \in at : TRUE
                           IN  IF row.price_wei < best[i].price_wei
                               THEN BestByToken(Tail(raw_rows), [best EXCEPT ![i] = row])
                               ELSE BestByToken(Tail(raw_rows), best)

\* build_discount_rankings, lines 264-290: the DiscountListing of one row,
\* Optional
DiscountListingOf(row, prices, dust_by_token) ==
    LET dust_locked       == dust_by_token[row.token_id]
        dust_value_usd    == dust_locked * prices.dust_usd
        listing_value_usd == row.price_mon * prices.mon_usd
    IN  IF dust_locked <= 0 \/ dust_value_usd <= 0 THEN <<>>
        ELSE << [rank_discount |-> 0,
                 token_id      |-> row.token_id,
                 seller        |-> row.seller,
                 order_hash    |-> row.order_hash,
                 price_mon     |-> row.price_mon,
                 price_wei     |-> row.price_wei,
                 dust_locked   |-> dust_locked,
                 discount_pct  |-> [num |-> dust_value_usd - listing_value_usd,
                                    den |-> dust_value_usd]] >>

RECURSIVE RankedOf(_, _, _)
RankedOf(best, prices, dust_by_token) ==
    IF best = <<>> THEN <<>>
    ELSE DiscountListingOf(Head(best), prices, dust_by_token)
             \o RankedOf(Tail(best), prices, dust_by_token)

\* a.discount_pct < b.discount_pct, both denominators being positive
PctLess(a, b) == a.discount_pct.num * b.discount_pct.den < b.discount_pct.num * a.discount_pct.den

\* the sort key (discount_pct, -price_mon) of line 292: key(a) > key(b)
DiscountKeyGreater(a, b) ==
    \/ PctLess(b, a)
    \/ ~PctLess(a, b) /\ ~PctLess(b, a) /\ (0 - a.price_mon) > (0 - b.price_mon)

\* list.sort(key=..., reverse=True): descending and stable
RECURSIVE SortDescending(_)
SortDescending(rows) ==
    IF rows = <<>> THEN <<>>
    ELSE LET front  == SortDescending(SubSeq(rows, 1, Len(rows) - 1))
             x      == rows[Len(rows)]
         IN  SelectSeq(front, LAMBDA y : ~DiscountKeyGreater(x, y))
                 \o <<x>>
                 \o SelectSeq(front, LAMBDA y : DiscountKeyGreater(x, y))

\* build_discount_rankings, given what fetch_opensea_listings, get_prices
\* and get_dust_locked_many returned
build_discount_rankings(raw_rows, prices, dust_by_token) ==
    LET best_by_token == BestByToken(raw_rows, <<>>)
        ranked        == SortDescending(RankedOf(best_by_token, prices, dust_by_token))
    IN  [prices         |-> prices,
         total_listings |-> Len(ranked),
         listings       |-> [idx \in 1..Len(ranked) |->
                                [ranked[idx] EXCEPT !.rank_discount = idx]]]

-----------------------------------------------------------------------------
(* Specification SpecDiscount: one build_discount_rankings call on fetched  *)
(* records, a quote pair and the locked amounts of the tokens.             *)

MaxDiscountRows == 3

DiscountTokens == {1, 2, 3}

\* 1 and 2 MON
DiscountValues == {1, 2}

\* 0 (unknown or failed), 10 and 20 DUST
DustLocked == {0, 10, 20}

DiscountRows ==
    {[status             |-> "active",
      remaining_quantity |-> 1,
      token_id           |-> t,
      offerer            |-> "x1",
      order_hash         |-> t,
      value              |-> v,
      decimals           |-> DEFAULT_DECIMALS] : t \in DiscountTokens, v \in DiscountValues}

DiscountBatches == SeqsUpTo(DiscountRows, MaxDiscountRows)

QuotePairs == [dust_usd : DustQuotes, mon_usd : MonQuotes]

InitDiscount == InitMonitorVars /\ InitPriceVars

\* _serve_snapshot: one request builds the ranking
BuildDiscountRankings(raw_rows, prices, dust_by_token) ==
    /\ payload = <<>>
    /\ fetched_rows' = raw_rows
    /\ payload' = <<build_discount_rankings(raw_rows, prices, dust_by_token)>>
    /\ UNCHANGED <<pc, args, state_file, state, last_snapshot, seen_events, aliased,
                   listings, events, cycle_events, emitted, delivery, clock>>
    /\ UNCHANGED <<now, price_cache, call, last_return, upstream, calls, dustVars>>

NextDiscount ==
    \E raw_rows \in DiscountBatches, prices \in QuotePairs,
       dust_by_token \in [DiscountTokens -> DustLocked] :
        BuildDiscountRankings(raw_rows, prices, dust_by_token)

SpecDiscount == InitDiscount /\ [][NextDiscount]_vars

\* C20 (as claimed): the listings are in descending order of discount
\* percentage and, at equal discount percentage, in descending order of
\* price; rank_discount is the position, counted from 1.
C20_DiscountThenPriceDescending ==
    payload # <<>> =>
        LET ls == payload[1].listings
        IN  /\ \A i \in 1..Len(ls) : ls[i].rank_discount = i
            /\ \A i, j \in 1..Len(ls) :
                   i < j => \/ PctLess(ls[j], ls[i])
                            \/ /\ ~PctLess(ls[i], ls[j])
                               /\ ls[i].price_mon >= ls[j].price_mon

-----------------------------------------------------------------------------
(* Specification SpecDedup: one build_discount_rankings call on fetched     *)
(* records that hold several orders of one token, ties in price included.  *)

\* orders of token "1" by two sellers, with two order hashes, at 1 and 2 MON
DedupRowsOfToken ==
    {[status             |-> "active",
      remaining_quantity |-> 1,
      token_id           |-> 1,
      offerer            |-> o,
      order_hash         |-> h,
      value              |-> v,
      decimals           |-> DEFAULT_DECIMALS] :
         o \in DiffOfferers, h \in {1, 2}, v \in DiscountValues}

DedupBatches == SeqsUpTo(DedupRowsOfToken, MaxDiscountRows)

NextDedup ==
    \E raw_rows \in DedupBatches, prices \in QuotePairs,
       dust_by_token \in [DiscountTokens -> {10}] :
        BuildDiscountRankings(raw_rows, prices, dust_by_token)

SpecDedup == InitDiscount /\ [][NextDedup]_vars

\* the parsed orders of the fetched records for one token
OrdersOf(token_id) ==
    {app_parse_listing(fetched_rows[i])[1] :
        i \in {j \in 1..Len(fetched_rows) :
                  /\ app_parse_listing(fetched_rows[j]) # <<>>
                  /\ app_parse_listing(fetched_rows[j])[1].token_id = token_id}}

\* order a is cheaper than b or, at equal price, has the smaller order hash
CheaperOrder(a, b) ==
    \/ a.price_wei < b.price_wei
    \/ a.price_wei = b.price_wei /\ a.order_hash < b.order_hash

\* C31 (as claimed): the listing of a token in the ranking is its cheapest
\* fetched order and, among the cheapest, one with the smallest order hash;
\* every permutation of the fetched records yields the same listings.
C31_CheapestThenSmallestHash ==
    payload # <<>> =>
        /\ \A i \in 1..Len(payload[1].listings) :
               LET l == payload[1].listings[i]
               IN  \A o \in OrdersOf(l.token_id) :
                       ~CheaperOrder(o, [price_wei |-> l.price_wei,
                                         order_hash |-> l.order_hash])
        /\ \A p \in Reorderings(fetched_rows) :
               build_discount_rankings(p, payload[1].prices, [t \in DiscountTokens |-> 10])
                   = payload[1]

-----------------------------------------------------------------------------
(* Specification SpecDust: concurrent get_dust_locked_many calls of the     *)
(* request threads on one NeverlandDataService.                             *)

MaxDustCalls == 2

MaxDustTime == 1800

\* time passes until an entry is one second short of the TTL, or expires
DustTickSteps == {METADATA_CACHE_TTL - 1, METADATA_CACHE_TTL}

\* the lists of distinct token ids build_discount_rankings passes (the keys
\* of best_by_token)
TokenIdLists == {<<>>, <<1>>, <<2>>, <<1, 2>>}

\* _fetch_json raises, or returns a payload without a usable attribute, with
\* a negative amount or with an amount
MetadataOutcomes ==
    {[raised |-> TRUE, attribute |-> <<>>]}
        \cup {[raised |-> FALSE, attribute |-> a] : a \in {<<>>, <<-5>>, <<10>>}}

DustCallsMade == many["r1"].calls + many["r2"].calls

InitDust == InitMonitorVars /\ InitPriceVars

NextDust ==
    \/ \E c \in DustCallers, token_ids \in TokenIdLists :
           /\ DustCallsMade < MaxDustCalls
           /\ StartMany(c, token_ids)
           /\ UNCHANGED <<monitorVars, price_cache, call, last_return, calls, payload>>
    \/ \E c \in DustCallers, token_id \in LookupTokens :
           /\ BeginLookup(c, token_id)
           /\ UNCHANGED <<monitorVars, price_cache, call, last_return, calls, payload>>
    \/ \E c \in DustCallers, token_id \in LookupTokens, outcome \in MetadataOutcomes :
           /\ FetchMetadata(c, token_id, outcome)
           /\ UNCHANGED <<monitorVars, price_cache, call, last_return, calls, payload>>
    \/ \E c \in DustCallers, token_id \in LookupTokens :
           /\ Collect(c, token_id)
           /\ UNCHANGED <<monitorVars, price_cache, call, last_return, calls, payload>>
    \/ \E c \in DustCallers :
           /\ ReturnMany(c)
           /\ UNCHANGED <<monitorVars, price_cache, call, last_return, calls, payload>>
    \/ \E d \in DustTickSteps :
           /\ now + d <= MaxDustTime
           /\ Tick(d)
           /\ UNCHANGED <<monitorVars, payload, dustVars>>

SpecDust == InitDust /\ [][NextDust]_vars

-----------------------------------------------------------------------------
(* Claims on get_prices, checked under SpecPrices *)

\* a fetch that was attempted and raised
Failed(got) == got = << <<>> >>

\* the callers that are between the refresh decision and the cache write
Refreshing == {c \in Callers : call[c].pc # "idle"}

\* caller c finishes a refresh in this step by storing its pair
Stores(c) == call[c].pc = "store" /\ call'[c].pc = "idle"

\* C4 (as claimed): a refresh in which a quote fell back to the stale value
\* stores its pair without advancing the cache timestamp.
C4_FallbackKeepsTimestamp ==
    [][\A c \in Callers :
          (Stores(c) /\ call[c].fallback_fields # <<>>)
              => /\ price_cache # <<>>
                 /\ price_cache' # <<>>
                 /\ price_cache'[1].ts = price_cache[1].ts]_vars

\* C5: a refresh that started from an expired pair returns, per quote, the
\* fetched value when its fetch succeeded and the expired pair's value when it
\* failed; fallback_fields lists exactly the failed quotes and the fallback
\* flag is set iff that list is not empty.
C5_StaleFallbackPerField ==
    (last_return.kind = "refreshed" /\ last_return.stale_prices # <<>>) =>
        LET r     == last_return
            stale == r.stale_prices[1]
            pair  == r.prices[1]
        IN  /\ pair.dust_usd = IF Failed(r.got_dust) THEN stale.dust_usd
                               ELSE r.got_dust[1][1]
            /\ pair.mon_usd = IF Failed(r.got_mon) THEN stale.mon_usd
                              ELSE r.got_mon[1][1]
            /\ r.fallback_fields =
                   (IF Failed(r.got_dust) THEN <<"dust_usd">> ELSE <<>>)
                       \o (IF Failed(r.got_mon) THEN <<"mon_usd">> ELSE <<>>)
            /\ r.using_fallback = (r.fallback_fields # <<>>)

\* the spec's example: cached {2.0, 1.0}, DUST refreshes to 2.1, MON fails
C5_Witness ==
    /\ last_return.kind = "refreshed"
    /\ last_return.stale_prices = <<[dust_usd |-> 20, mon_usd |-> 10]>>
    /\ last_return.got_dust = << <<21>> >>
    /\ Failed(last_return.got_mon)
    /\ last_return.prices = <<[dust_usd |-> 21, mon_usd |-> 10]>>
    /\ last_return.fallback_fields = <<"mon_usd">>

\* C6: a call that found the cache empty does not survive a failed fetch: it
\* raises at that fetch, the raising step leaves the cache as it was, nothing
\* is returned and no ranking is built.
C6_EmptyCacheFailureRaises ==
    [][/\ \A c \in Callers :
              call'[c].stale_prices = <<>>
                  => ~Failed(call'[c].got_dust) /\ ~Failed(call'[c].got_mon)
       /\ (last_return'.kind = "refreshed" /\ last_return'.stale_prices = <<>>)
              => ~Failed(last_return'.got_dust) /\ ~Failed(last_return'.got_mon)
       /\ last_return'.kind = "raised"
              => /\ last_return'.stale_prices = <<>>
                 /\ last_return'.prices = <<>>
                 /\ ~last_return'.ranking
                 /\ Failed(last_return'.got_dust) \/ Failed(last_return'.got_mon)
       /\ \A c \in Callers :
              (call[c].pc \in {"fetch_dust", "fetch_mon"} /\ call'[c].pc = "idle")
                  => /\ price_cache' = price_cache
                     /\ last_return'.kind = "raised"
                     /\ last_return'.caller = c]_vars

\* a call raised on a failed MON fetch while the cache was still empty
C6_Witness ==
    /\ last_return.kind = "raised"
    /\ last_return.got_dust # <<>>
    /\ ~Failed(last_return.got_dust)
    /\ Failed(last_return.got_mon)
    /\ price_cache = <<>>
    /\ ~last_return.ranking

\* C7 (as claimed): the number of refreshes in flight on one expired or empty
\* cache does not grow with the number of callers: of the three callers at
\* least one is always spared a refresh of its own.
C7_RefreshesBoundedBelowCallers ==
    Cardinality(Refreshing) < Cardinality(Callers)

\* C8: a call that finds a pair younger than the TTL returns that pair with
\* no fallback flag, fetches nothing and leaves the cache and every caller's
\* locals as they were; a call that finds a pair whose age has reached the
\* TTL starts fetching, and a refresh started from such a pair always
\* returns with both fetches attempted, whatever either fetch did.
C8_FreshServedExpiredRefetched ==
    [][/\ (calls' = calls + 1 /\ price_cache # <<>>
               /\ now - price_cache[1].ts < PRICE_CACHE_TTL)
              => /\ last_return'.kind = "cached"
                 /\ last_return'.prices = <<price_cache[1].prices>>
                 /\ ~last_return'.using_fallback
                 /\ last_return'.fallback_fields = <<>>
                 /\ upstream' = upstream
                 /\ price_cache' = price_cache
                 /\ call' = call
       /\ (calls' = calls + 1 /\ price_cache # <<>>
               /\ now - price_cache[1].ts >= PRICE_CACHE_TTL)
              => \E c \in Callers :
                     /\ call[c].pc = "idle"
                     /\ call'[c].pc = "fetch_dust"
                     /\ call'[c].stale_prices = <<price_cache[1].prices>>
       /\ \A c \in Callers :
              (call[c].stale_prices # <<>> /\ call[c].pc \in {"fetch_dust", "fetch_mon"})
                  => /\ upstream' = upstream + 1 => call'[c].pc # "idle"
       /\ (last_return'.stale_prices # <<>>)
              => /\ last_return'.kind = "refreshed"
                 /\ last_return'.got_dust # <<>>
                 /\ last_return'.got_mon # <<>>]_vars

\* a pair stored by an expired-cache refresh whose DUST fetch failed is then
\* served from the cache one second before it expires
C8_Witness ==
    /\ last_return.kind = "cached"
    /\ upstream = 4
    /\ price_cache # <<>>
    /\ now - price_cache[1].ts = PRICE_CACHE_TTL - 1
    /\ last_return.prices = <<price_cache[1].prices>>

\* C27 (as claimed): a pair returned with no fallback flag and no fallback
\* fields holds only values fetched within the TTL: the return that follows a
\* refresh that reused a stale value is never a cached, unflagged return of
\* that stale value.
C27_UnflaggedIsFetched ==
    [][(last_return.kind = "refreshed" /\ last_return.using_fallback)
          => ~(/\ last_return'.kind = "cached"
               /\ ~last_return'.using_fallback
               /\ last_return'.fallback_fields = <<>>
               /\ \E f \in Range(last_return.fallback_fields) :
                      last_return'.prices[1][f] = last_return.stale_prices[1][f])]_vars

\* C28 (as claimed): of two refreshes started from the same expired pair,
\* once one has stored a pair whose quotes were both fetched, the store of
\* the other leaves in the cache the fetched value of every quote for which
\* it only holds its stale copy.
C28_NoStaleOverwrite ==
    [][\A c \in Callers :
          (/\ Stores(c)
           /\ call[c].stale_prices # <<>>
           /\ call[c].fallback_fields # <<>>
           /\ last_return.kind = "refreshed"
           /\ last_return.caller # c
           /\ ~last_return.using_fallback
           /\ last_return.stale_prices = call[c].stale_prices
           /\ price_cache # <<>>
           /\ price_cache[1].prices = last_return.prices[1])
              => \A f \in Range(call[c].fallback_fields) :
                     price_cache'[1].prices[f] = price_cache[1].prices[f]]_vars

-----------------------------------------------------------------------------
(* Claims on the metadata lookups, checked under SpecDust *)

\* the get_dust_locked call of thread c for a token raised
LookupRaised(c, token_id) == lookup[c][token_id].pc = "raised"

\* C21: get_dust_locked_many never raises, and the mapping it returns has an
\* entry for every requested token id and no other: 0 for a token whose
\* lookup raised, and for every other token the value its own lookup
\* returned, whatever the other lookups did.
C21_FailuresIsolatedPerItem ==
    \A c \in DustCallers :
        /\ many[c].pc # "raised"
        /\ many[c].pc = "returned" =>
               /\ DOMAIN many[c].out = Range(many[c].token_ids)
               /\ \A t \in Range(many[c].token_ids) :
                      /\ lookup[c][t].pc \in {"returned", "raised"}
                      /\ many[c].out[t] = IF LookupRaised(c, t) THEN 0
                                          ELSE lookup[c][t].result[1]

\* a call for tokens "1" and "2" returned with the lookup of "1" failed and
\* the lookup of "2" answered 10
C21_Witness ==
    \E c \in DustCallers :
        /\ many[c].pc = "returned"
        /\ many[c].token_ids = <<1, 2>>
        /\ LookupRaised(c, 1)
        /\ lookup[c][2].result = <<10>>
        /\ many[c].out = (1 :> 0) @@ (2 :> 10)

\* C29: a get_dust_locked call whose fetch raises leaves the metadata cache
\* as it was (no entry is added or replaced, so the token's entry is as
\* fresh or expired as before and no zero is stored for the failure); a call
\* that finds no fresh entry for its token goes on to fetch, and a call that
\* finds a fresh entry (age < METADATA_CACHE_TTL) returns its value without
\* a fetch or a write; no negative amount is ever in the cache.
C29_FailedLookupWritesNothing ==
    [][/\ \A c \in DustCallers, t \in LookupTokens :
              /\ (lookup[c][t].pc = "fetching" /\ LookupRaised(c, t)')
                     => metadata_cache' = metadata_cache
              /\ (lookup[c][t].pc = "submitted" /\ lookup'[c][t].pc # "submitted")
                     => IF t \in DOMAIN metadata_cache
                           /\ now - metadata_cache[t].ts < METADATA_CACHE_TTL
                        THEN /\ lookup'[c][t].pc = "returned"
                             /\ lookup'[c][t].result = <<metadata_cache[t].dust_locked>>
                             /\ upstream' = upstream
                             /\ metadata_cache' = metadata_cache
                        ELSE /\ lookup'[c][t].pc = "fetching"
                             /\ metadata_cache' = metadata_cache
       /\ \A t \in DOMAIN metadata_cache' : metadata_cache'[t].dust_locked >= 0]_vars

\* a lookup failed on a token whose entry had expired: the expired entry is
\* still the one in the cache
C29_Witness ==
    \E c \in DustCallers, t \in LookupTokens :
        /\ LookupRaised(c, t)
        /\ t \in DOMAIN metadata_cache
        /\ metadata_cache[t].dust_locked = 10
        /\ lookup[c][t].started - metadata_cache[t].ts >= METADATA_CACHE_TTL

====
